---- MODULE Spec2Model ----
(***************************************************************************)
(* Mesh topology cache (dolfinx::mesh::Mesh), the scalar assembly          *)
(* dispatcher (dolfinx::fem::impl::assemble_scalar) and the sub-space      *)
(* cache of dolfinx::function::FunctionSpace.                              *)
(*                                                                         *)
(* Conventions.  Entity, vertex and cell indices are 0-based as in the     *)
(* code; TLA+ sequences are 1-based, so row i of an adjacency list is      *)
(* adj[i + 1].  A shared_ptr that may be null is a sequence of length <= 1:*)
(* <<>> is the null pointer, <<v>> points to v.                            *)
(***************************************************************************)
EXTENDS Integers, Sequences, FiniteSets, TLC

VARIABLES
  mesh,      \* the construction input of the Mesh (cells, geometry, ownership)
  ndebug,    \* TRUE when the build defines NDEBUG (assert compiled out)
  topology,  \* *_topology: the cached connectivity, index maps, permutations
  pc,        \* "idle": the caller may call; "returned": a call has returned
  call,      \* the last call: operation, arguments, topology before, outcome
  objects,   \* the Mesh objects made from the first by copy and move, and the
             \* Topology and Geometry objects they own
  spaces     \* the FunctionSpace objects, and the shared_ptrs the caller holds

vars == <<mesh, ndebug, topology, pc, call, objects, spaces>>

\* Longest total length of the active-entity lists of one Form.
MaxActive == 2

\* Largest number of set_connectivity stores counted per pair.
MaxStores == 2

-----------------------------------------------------------------------------
(* Generic helpers                                                         *)

Null == <<>>
Ptr(v) == <<v>>
IsNull(p) == p = <<>>
Deref(p) == p[1]

\* The function f as an explicit table of its values.
Fcn(f) == f @@ <<>>

\* The sequence f as an explicit tuple.
Tup(f) == f \o <<>>

Min(a, b) == IF a < b THEN a ELSE b

Range(s) == {s[i] : i \in 1..Len(s)}

\* A value read outside an array. It stands for every value of its type:
\* what such a read yields is not defined, and differs from run to run.
Indeterminate == -2147483647

\* An entry of memory that was allocated and never written. It stands for
\* every value of its type too; reading it neither crashes nor counts as a
\* read outside an array.
Uninitialized == -2147483646

\* v stands for a value the code does not determine.
undetermined(v) == v \in {Indeterminate, Uninitialized}

\* a + b, indeterminate when a or b is.
Sum(a, b) == IF undetermined(a) \/ undetermined(b) THEN Indeterminate ELSE a + b

\* assert(cond): aborts in a build with assertions, is skipped under NDEBUG.
AssertFails(nd, cond) == ~nd /\ ~cond

RECURSIVE SumSeq(_)
SumSeq(s) == IF s = <<>> THEN 0 ELSE s[1] + SumSeq(Tail(s))

RECURSIVE Flatten(_)
Flatten(ss) == IF ss = <<>> THEN <<>> ELSE ss[1] \o Flatten(Tail(ss))

\* The elements of a finite set of integers in ascending order.
RECURSIVE SortedSeq(_)
SortedSeq(S) ==
  IF S = {} THEN <<>>
  ELSE LET m == CHOOSE x \in S : \A y \in S : x <= y
       IN <<m>> \o SortedSeq(S \ {m})

\* s without repetitions, each element at the place of its first occurrence.
RECURSIVE Unique(_)
Unique(s) ==
  IF s = <<>> THEN <<>>
  ELSE LET r == Unique(SubSeq(s, 1, Len(s) - 1))
           x == s[Len(s)]
       IN IF x \in Range(r) THEN r ELSE Append(r, x)

\* std::find followed by std::distance: the 0-based position of the first x
\* in s, and Len(s) (the end iterator) when x is not in s.
Find(s, x) ==
  IF x \in Range(s) THEN (CHOOSE i \in 1..Len(s) : s[i] = x /\ \A j \in 1..(i - 1) : s[j] # x) - 1
  ELSE Len(s)

\* All sequences over S of length at most n.
RECURSIVE SeqsUpTo(_, _)
SeqsUpTo(S, n) ==
  IF n = 0 THEN {<<>>}
  ELSE LET R == SeqsUpTo(S, n - 1)
       IN R \cup {Append(r, x) : r \in {q \in R : Len(q) = n - 1}, x \in S}

-----------------------------------------------------------------------------
(* graph::AdjacencyList                                                    *)

num_nodes(adj) == Len(adj)
links(adj, i) == adj[i + 1]
num_links(adj, i) == Len(adj[i + 1])

-----------------------------------------------------------------------------
(* Construction inputs: cells (global cell -> vertices), ownership of the  *)
(* cells, geometry, and which constructor built the Mesh.                  *)

\* The local vertex tuples of the sub-entities of dimension d of the
\* reference cell of dimension tdim (1-based positions into a cell's
\* vertex list): interval, triangle, tetrahedron.
RefEntities(tdim, d) ==
  IF d = 0 THEN Tup([i \in 1..(tdim + 1) |-> <<i>>])
  ELSE IF d = tdim THEN <<Tup([i \in 1..(tdim + 1) |-> i])>>
  ELSE IF tdim = 2 THEN << <<2, 3>>, <<1, 3>>, <<1, 2>> >>
  ELSE IF d = 1 THEN << <<3, 4>>, <<2, 4>>, <<2, 3>>, <<1, 4>>, <<1, 3>>, <<1, 2>> >>
  ELSE << <<2, 3, 4>>, <<1, 3, 4>>, <<1, 2, 4>>, <<1, 2, 3>> >>

\* Geometry: node v sits at x[v + 1] (always 3 components); the coordinate
\* dofmap of an affine cell is the cell's vertex list.
GeometryOf(tdim, cells, nv) ==
  [dim |-> tdim,
   x |-> Tup([i \in 1..nv |-> <<i - 1, (i - 1) * (i - 1), 2 * (i - 1)>>]),
   dofmap |-> cells]

MeshInput(tdim, cells, nv, owned, factory) ==
  [tdim |-> tdim, cells |-> cells, num_vertices |-> nv, size_local |-> owned,
   block_size |-> 1, factory |-> factory, geometry |-> GeometryOf(tdim, cells, nv)]

\* The same input with index maps of block size bs: the block size of the
\* index maps of the vertices and of the cells is the caller's.
blocked(m, bs) == [m EXCEPT !.block_size = bs]

IntervalCells == << <<0, 1>>, <<1, 2>> >>
TriangleCells == << <<0, 1, 2>>, <<2, 1, 3>> >>
TetrahedronCells == << <<0, 1, 2, 3>> >>
OneTriangleCells == << <<1, 0, 2>> >>

MeshInputs ==
  {MeshInput(1, IntervalCells, 3, o, f) : o \in {1, 2}, f \in BOOLEAN}
  \cup {MeshInput(2, TriangleCells, 4, o, f) : o \in {1, 2}, f \in BOOLEAN}
  \cup {MeshInput(3, TetrahedronCells, 4, 1, f) : f \in BOOLEAN}
  \cup {blocked(MeshInput(1, IntervalCells, 3, 2, f), 3) : f \in BOOLEAN}

\* The meshes assembly runs on: two intervals (one interior facet, two
\* exterior ones) and one triangle (its edges are created lazily).  Assembly
\* reads neither the ownership of the entities nor which constructor built
\* the Mesh: the factory's topology is the one create_entities leaves.
AssemblyMeshInputs ==
  {MeshInput(1, IntervalCells, 3, 2, FALSE), MeshInput(2, OneTriangleCells, 3, 1, FALSE)}

-----------------------------------------------------------------------------
(* mesh::Topology                                                          *)

Dims(T) == 0..T.dim
Pairs(T) == Dims(T) \X Dims(T)

connectivity(T, d0, d1) == T.connectivity[<<d0, d1>>]
index_map(T, d) == T.index_map[d]

\* Topology::set_connectivity(c, d0, d1): store the pointer; T.stores counts
\* the stores made to each pair.
set_connectivity(T, c, d0, d1) ==
  [T EXCEPT !.connectivity[<<d0, d1>>] = c,
            !.stores[<<d0, d1>>] = Min(@ + 1, MaxStores)]

set_index_map(T, d, m) == [T EXCEPT !.index_map[d] = m]

set_interior_facets(T, f) == [T EXCEPT !.interior_facets = Ptr(f)]

\* mesh::create_topology: vertices and the cell-vertex connectivity, with
\* the index maps of dimension 0 and tdim; nothing else.
create_topology(m) ==
  LET tdim == m.tdim
      P == (0..tdim) \X (0..tdim)
      ghost_cells == {c \in 1..Len(m.cells) : c > m.size_local}
      owned_vertices == UNION {Range(m.cells[c]) : c \in 1..m.size_local}
      T0 == [dim |-> tdim,
             connectivity |-> Fcn([p \in P |-> Null]),
             index_map |-> Fcn([d \in 0..tdim |-> Null]),
             interior_facets |-> Null,
             cell_permutations |-> Null,
             facet_permutations |-> Null,
             stores |-> Fcn([p \in P |-> 0])]
      T1 == set_connectivity(T0, Ptr(Tup([v \in 1..m.num_vertices |-> <<v - 1>>])), 0, 0)
      T2 == set_connectivity(T1, Ptr(m.cells), tdim, 0)
      T3 == set_index_map(T2, 0, Ptr([size_local |-> Cardinality(owned_vertices),
                                      num_ghosts |-> m.num_vertices - Cardinality(owned_vertices),
                                      block_size |-> m.block_size]))
  IN set_index_map(T3, tdim, Ptr([size_local |-> m.size_local,
                                  num_ghosts |-> Cardinality(ghost_cells),
                                  block_size |-> m.block_size]))

-----------------------------------------------------------------------------
(* mesh::TopologyComputation                                               *)

\* The vertices of local sub-entity k (1-based) of dimension d of a cell
\* whose vertex list is cv, in ascending order: the key of the entity.
EntityKey(tdim, d, cv, k) ==
  SortedSeq({cv[RefEntities(tdim, d)[k][j]] : j \in 1..Len(RefEntities(tdim, d)[k])})

\* The keys of the sub-entities of dimension d of every cell, cell by cell.
CellEntityKeys(tdim, d, cells) ==
  Tup([c \in 1..Len(cells) |->
     Tup([k \in 1..Len(RefEntities(tdim, d)) |-> EntityKey(tdim, d, cells[c], k)])])

\* How many of the entities ents some owned cell mentions (the first owned
\* cells of keys are the owned ones).
num_owned_entities(keys, ents, owned) ==
  Cardinality({e \in 1..Len(ents) : \E c \in 1..owned : ents[e] \in Range(keys[c])})

\* The index map of n entities of which n_owned are owned: the others are
\* ghosts.
entity_index_map(n_owned, n) ==
  Ptr([size_local |-> n_owned, num_ghosts |-> n - n_owned, block_size |-> 1])

\* (tdim, dim), (dim, 0) and the index map, for the entities ents.
numbered_entities(keys, ents, owned) ==
  [cell_entity |->
     Ptr(Tup([c \in 1..Len(keys) |->
            Tup([k \in 1..Len(keys[c]) |-> Find(ents, keys[c][k])])])),
   entity_vertex |-> Ptr(ents),
   index_map |-> entity_index_map(num_owned_entities(keys, ents, owned), Len(ents))]

\* The entities numbered in the order the cells first mention them.
entities_of_keys(keys, owned) == numbered_entities(keys, Unique(Flatten(keys)), owned)

\* TopologyComputation::compute_entities(comm, topology, dim): nothing when
\* dim = 0 or (dim, 0) is cached; otherwise the entities of dimension dim,
\* numbered in the order the cells first mention them: (tdim, dim), (dim, 0)
\* and the index map (an entity no owned cell mentions is a ghost).
compute_entities(T, dim) ==
  IF dim = 0 \/ ~IsNull(connectivity(T, dim, 0))
  THEN [cell_entity |-> Null, entity_vertex |-> Null, index_map |-> Null]
  ELSE entities_of_keys(CellEntityKeys(T.dim, dim, Deref(connectivity(T, T.dim, 0))),
                        Deref(index_map(T, T.dim)).size_local)

\* compute_from_transpose: row e0 lists, in ascending order, the entities e1
\* whose row in c_d1_d0 holds e0.
compute_from_transpose(c_d1_d0, num_d0) ==
  Tup([e0 \in 1..num_d0 |->
     SortedSeq({e1 - 1 : e1 \in {i \in 1..Len(c_d1_d0) : (e0 - 1) \in Range(c_d1_d0[i])}})])

\* compute_from_map: for d0 > d1, row e0 lists the entities of dimension d1
\* that are sub-entities of e0, in the reference order of e0's sub-entities.
compute_from_map(c_d0_0, c_d1_0, d0, d1) ==
  Tup([e0 \in 1..Len(c_d0_0) |->
     Tup([k \in 1..Len(RefEntities(d0, d1)) |->
        Find(c_d1_0, EntityKey(d0, d1, c_d0_0[e0], k))])])

\* (d0, d1) as the transpose of a (d1, d0) that was computed for it: both are
\* returned.
transpose_with(c_d1_d0, num_d0) ==
  <<Ptr(compute_from_transpose(c_d1_d0, num_d0)), Ptr(c_d1_d0)>>

\* The computation of a (d0, d1) that is not cached, from the vertex lists
\* of the entities of both dimensions.
compute_uncached(T, d0, d1, c_d0_0, c_d1_0) ==
  IF d0 = d1
  THEN <<Ptr(Tup([e \in 1..Len(c_d0_0) |-> <<e - 1>>])), Null>>
  ELSE IF d0 < d1
  THEN IF IsNull(connectivity(T, d1, d0))
       THEN transpose_with(compute_from_map(c_d1_0, c_d0_0, d1, d0), Len(c_d0_0))
       ELSE <<Ptr(compute_from_transpose(Deref(connectivity(T, d1, d0)), Len(c_d0_0))),
              Null>>
  ELSE <<Ptr(compute_from_map(c_d0_0, c_d1_0, d0, d1)), Null>>

\* TopologyComputation::compute_connectivity(topology, d0, d1): nothing when
\* (d0, d1) is cached; the identity for d0 = d1; for d0 < d1 the transpose
\* of (d1, d0), which is computed first, and returned as well, when it is
\* not cached; for d0 > d1 the map through the vertices.
compute_connectivity(T, d0, d1) ==
  IF ~IsNull(connectivity(T, d0, d1)) THEN <<Null, Null>>
  ELSE compute_uncached(T, d0, d1, Deref(connectivity(T, d0, 0)),
                        Deref(connectivity(T, d1, 0)))

\* compute_interior_facets(topology): a facet is interior iff it has
\* exactly two incident cells.
facets_with_two_cells(c) == Tup([f \in 1..Len(c) |-> Len(c[f]) = 2])

compute_interior_facets(T) ==
  facets_with_two_cells(Deref(connectivity(T, T.dim - 1, T.dim)))

\* Whether the tuple s is an odd permutation of its ascending order.
Flipped(s) ==
  Cardinality({p \in (1..Len(s)) \X (1..Len(s)) : p[1] < p[2] /\ s[p[1]] > s[p[2]]}) % 2 = 1

\* The vertices of local sub-entity k of dimension d of a cell, in the
\* cell's local order.
LocalEntity(tdim, d, cv, k) ==
  Tup([j \in 1..Len(RefEntities(tdim, d)[k]) |-> cv[RefEntities(tdim, d)[k][j]]])

RECURSIVE BitMask(_)
BitMask(bits) ==
  IF bits = <<>> THEN 0
  ELSE (IF bits[1] THEN 1 ELSE 0) + 2 * BitMask(Tail(bits))

\* Whether each local sub-entity of dimension d of the cell cv is flipped as
\* seen from the cell.
entity_flips(tdim, d, cv) ==
  Tup([k \in 1..Len(RefEntities(tdim, d)) |-> Flipped(LocalEntity(tdim, d, cv, k))])

\* One byte per local facet of the cell: 1 when the facet is flipped.
facet_flip_bytes(tdim, flips) ==
  Tup([k \in 1..Len(flips) |-> IF tdim > 1 /\ flips[k] THEN 1 ELSE 0])

\* compute_entity_permutations(topology): per cell, one byte per local
\* facet telling whether the facet is flipped as seen from the cell, and a
\* bitmask of the flips of the cell's edges (then faces).
entity_permutations_of(tdim, cells) ==
  [facet_permutations |->
     Tup([c \in 1..Len(cells) |->
        facet_flip_bytes(tdim, entity_flips(tdim, tdim - 1, cells[c]))]),
   cell_permutations |->
     Tup([c \in 1..Len(cells) |->
        BitMask(Flatten(Tup([i \in 1..(tdim - 1) |-> entity_flips(tdim, i, cells[c])])))])]

compute_entity_permutations(T) ==
  entity_permutations_of(T.dim, Deref(connectivity(T, T.dim, 0)))

-----------------------------------------------------------------------------
(* mesh::Mesh                                                              *)

\* A guard that looks at the wrong pair, (dim, dim) for (dim, 0).
already_computed_wrong_pair(T, dim) == ~IsNull(connectivity(T, dim, dim))

\* "Skip if already computed", Mesh.cpp line 210.
already_computed(T, dim) == ~IsNull(connectivity(T, dim, 0))

\* if (cell_entity) set_connectivity(cell_entity, tdim, dim), line 218.
store_cell_entity(T, r, dim) ==
  IF ~IsNull(r.cell_entity) THEN set_connectivity(T, r.cell_entity, T.dim, dim) ELSE T

\* if (entity_vertex) set_connectivity(entity_vertex, dim, 0), line 220.
store_entity_vertex(T, r, dim) ==
  IF ~IsNull(r.entity_vertex) THEN set_connectivity(T, r.entity_vertex, dim, 0) ELSE T

\* if (index_map) set_index_map(dim, index_map), line 223.
store_index_map(T, r, dim) ==
  IF ~IsNull(r.index_map) THEN set_index_map(T, dim, r.index_map) ELSE T

\* Lines 218-224: the three stores of what compute_entities returned.
store_entities(T, r, dim) ==
  store_index_map(store_entity_vertex(store_cell_entity(T, r, dim), r, dim), r, dim)

\* return index_map->size_local(), line 226: dereferencing a null index_map
\* is a crash.
return_size_local(T, r) ==
  IF IsNull(r.index_map)
  THEN [topology |-> T, ret |-> 0, status |-> "segfault"]
  ELSE [topology |-> T, ret |-> Deref(r.index_map).size_local, status |-> "ok"]

\* Lines 218-226, for the result r of compute_entities.
create_entities_from(T, r, dim) == return_size_local(store_entities(T, r, dim), r)

\* Mesh::create_entities(dim): the topology after the call, the value
\* returned, and how the call ended.
create_entities(T, dim) ==
  IF already_computed(T, dim)
  THEN [topology |-> T, ret |-> -1, status |-> "ok"]
  ELSE create_entities_from(T, compute_entities(T, dim), dim)

\* Attaching without the null checks: a null result replaces what is cached.
attach_unchecked(T, c, d0, d1) ==
  set_connectivity(set_connectivity(T, c[1], d0, d1), c[2], d1, d0)

\* if (c) set_connectivity(c, d0, d1).
attach(T, c, d0, d1) == IF ~IsNull(c) THEN set_connectivity(T, c, d0, d1) ELSE T

\* "Attach connectivities", Mesh.cpp lines 255-259: store what the
\* computation returned, and nothing else.
attach_connectivities(T, c, d0, d1) == attach(attach(T, c[1], d0, d1), c[2], d1, d0)

\* Only the requested pair stored.
compute_and_attach_requested(T, d0, d1) ==
  attach(T, compute_connectivity(T, d0, d1)[1], d0, d1)

\* Lines 243-259: compute and attach.
compute_and_attach(T, d0, d1) ==
  attach_connectivities(T, compute_connectivity(T, d0, d1), d0, d1)

\* The facet flags never computed.
special_facet_handling_skipped(T, d0, d1) == T

\* "Special facet handing", lines 262-266.
special_facet_handling(T, d0, d1) ==
  IF d0 = T.dim - 1 /\ d1 = T.dim
  THEN set_interior_facets(T, compute_interior_facets(T))
  ELSE T

\* How a create_* call ends: the topology it leaves, and whether it returned.
created(T, status) == [topology |-> T, status |-> status]

\* Lines 242-266, after the create_entities call that ended r.
connectivity_after(r, d0, d1) ==
  IF r.status # "ok" THEN created(r.topology, r.status)
  ELSE created(special_facet_handling(compute_and_attach(r.topology, d0, d1), d0, d1), "ok")

\* create_entities(d1), line 239, after the create_entities call that
\* ended r.
then_create_entities(r, d1) ==
  IF r.status # "ok" THEN r ELSE create_entities(r.topology, d1)

\* Mesh::create_connectivity(d0, d1).
create_connectivity(T, d0, d1) ==
  connectivity_after(then_create_entities(create_entities(T, d0), d1), d0, d1)

\* for (d = first; d <= last; ++d) create_entities(d): the loop ends with
\* the call that does not return.
RECURSIVE create_all_entities(_, _, _)
create_all_entities(T, d, last) ==
  IF d > last THEN created(T, "ok")
  ELSE IF create_entities(T, d).status # "ok"
  THEN created(create_entities(T, d).topology, create_entities(T, d).status)
  ELSE create_all_entities(create_entities(T, d).topology, d + 1, last)

\* The two permutation tables stored in the topology.
store_permutations(T, p) ==
  [T EXCEPT !.cell_permutations = Ptr(p.cell_permutations),
            !.facet_permutations = Ptr(p.facet_permutations)]

compute_and_store_permutations(T) == store_permutations(T, compute_entity_permutations(T))

\* Topology::create_entity_permutations(): nothing when already computed;
\* otherwise makes sure the entities of every dimension < tdim exist and
\* computes both permutation tables.
topology_create_entity_permutations(T) ==
  IF ~IsNull(T.cell_permutations) THEN T
  ELSE compute_and_store_permutations(create_all_entities(T, 0, T.dim - 1).topology)

\* _topology->create_entity_permutations(), line 281, after the loop that
\* ended r.
permutations_after(r) ==
  IF r.status # "ok" THEN r
  ELSE created(topology_create_entity_permutations(r.topology), "ok")

\* The entities created and the permutation tables left as they are.
create_entity_permutations_entities_only(T) == create_all_entities(T, 0, T.dim - 1)

\* Mesh::create_entity_permutations().
create_entity_permutations(T) == permutations_after(create_all_entities(T, 0, T.dim - 1))

\* Mesh::create_connectivity_all(): the pairs in the order of the two loops.
RECURSIVE create_connectivity_pairs(_, _)
create_connectivity_pairs(r, n) ==
  IF n = (r.topology.dim + 1) * (r.topology.dim + 1) \/ r.status # "ok" THEN r
  ELSE create_connectivity_pairs(
         create_connectivity(r.topology, n \div (r.topology.dim + 1),
                             n % (r.topology.dim + 1)), n + 1)

create_connectivity_all(T) ==
  create_connectivity_pairs(create_all_entities(T, 0, T.dim), 0)

\* How num_entities ends: the count, or none.
entity_count(status, what, d, ret) == [status |-> status, what |-> what, dim |-> d, ret |-> ret]

\* A count that leaves the ghosts out.
num_entities_owned_only(T, d, nd) ==
  IF IsNull(index_map(T, d)) THEN entity_count("runtime_error", "NotInitialized", d, Null)
  ELSE IF AssertFails(nd, Deref(index_map(T, d)).block_size = 1)
  THEN entity_count("abort", "", d, Null)
  ELSE entity_count("ok", "", d, Ptr(Deref(index_map(T, d)).size_local))

\* Mesh::num_entities(d): the runtime_error, whose message names d, when
\* there is no index map; assert(map->block_size() == 1); the count.
num_entities(T, d, nd) ==
  IF IsNull(index_map(T, d)) THEN entity_count("runtime_error", "NotInitialized", d, Null)
  ELSE IF AssertFails(nd, Deref(index_map(T, d)).block_size = 1)
  THEN entity_count("abort", "", d, Null)
  ELSE entity_count("ok", "", d,
                    Ptr(Deref(index_map(T, d)).size_local + Deref(index_map(T, d)).num_ghosts))

\* compute_entities and the three conditional stores, Mesh.cpp lines 70-77
\* and 79-87.
compute_and_store_entities(T, d) == store_entities(T, compute_entities(T, d), d)

\* The factory without its block of lines 68-88.
create_local_entities_none(T) == T

\* Lines 68-88: the edges and the facets, when tdim > 1.
create_local_entities(T) ==
  IF T.dim > 1
  THEN compute_and_store_entities(compute_and_store_entities(T, 1), T.dim - 1)
  ELSE T

\* mesh::create: the topology the factory hands to the Mesh constructor.
mesh_create(m) == create_local_entities(create_topology(m))

\* The topology a Mesh starts with: built by the factory, or composed from a
\* Topology that came straight from create_topology.
InitialTopology(m) == IF m.factory THEN mesh_create(m) ELSE create_topology(m)

-----------------------------------------------------------------------------
(* fem::Form and the kernels                                               *)

\* An array of coefficients with one row of cols entries per cell; entry j
\* of cell c is 10 c + j.
coefficient_array(m, cols) ==
  Tup([c \in 1..Len(m.cells) |-> Tup([j \in 1..cols |-> 10 * (c - 1) + j])])

\* M.coefficients().offsets().back().
offsets_back(offsets) == offsets[Len(offsets)]

\* pack_coefficients(M): one row per cell, with offsets.back() columns.
pack_coefficients(m, M) == coefficient_array(m, offsets_back(M.offsets))

\* tabulate_tensor kernels.  A kernel is handed the accumulator A and the
\* gathered data of one entity; "add" kernels do A += contribution, "set"
\* kernels do A = contribution.  A uniform kernel contributes k for every
\* entity, the other one a weight computed from the gathered data.
Kernels ==
  {[mode |-> "add", k |-> 2, uniform |-> TRUE],
   [mode |-> "set", k |-> 2, uniform |-> TRUE],
   [mode |-> "add", k |-> 1, uniform |-> FALSE]}

\* The data of one entity that the weight of the kernel is computed from.
weighted_data(a) ==
  Tup([i \in 1..Len(a.coordinate_dofs) |-> a.coordinate_dofs[i][1]])
    \o a.local_facet \o a.perm \o <<a.cell_info, a.w[1]>>

Contribution(fn, a) ==
  IF fn.uniform THEN fn.k
  ELSE IF \E v \in Range(weighted_data(a)) : undetermined(v) THEN Indeterminate
  ELSE fn.k * (1 + SumSeq(weighted_data(a)))

tabulate_tensor(fn, A, a) == Sum(IF fn.mode = "add" THEN A ELSE 0, Contribution(fn, a))

\* Form::all_constants_set(): every constant has a value.
all_constants_set(M) == \A i \in 1..Len(M.constants) : ~IsNull(M.constants[i])

constant_values(M) == Flatten(M.constants)

-----------------------------------------------------------------------------
(* fem::impl::assemble_scalar                                              *)

\* One entry of the log of a call: a build-phase call on the topology (and
\* whether it changed the cache), the packing of the coefficients, or a
\* kernel invocation with the data it was handed.
BuildEvent(name, kind, before, after) ==
  [ev |-> name, kind |-> kind, pos |-> 0, entity |-> -1, mutated |-> before # after,
   cells |-> <<>>, local_facet |-> <<>>, perm |-> <<>>, cell_info |-> 0,
   coordinate_dofs |-> <<>>, w |-> <<>>]

KernelEvent(kind, pos, entity, a) ==
  [ev |-> "kernel", kind |-> kind, pos |-> pos, entity |-> entity, mutated |-> FALSE,
   cells |-> a.cells, local_facet |-> a.local_facet, perm |-> a.perm,
   cell_info |-> a.cell_info, coordinate_dofs |-> a.coordinate_dofs, w |-> a.w]

\* Topology::create_entities / Topology::create_connectivity, as called
\* through mesh.topology_mutable(): the operations of the same name.
topology_create_entities(T, d) == create_entities(T, d).topology
topology_create_connectivity(T, d0, d1) == create_connectivity(T, d0, d1).topology

\* The rows x_g.row(x_dofs[i]).head(gdim) of the nodes x_dofs.
coordinate_rows(g, x_dofs) ==
  Tup([i \in 1..num_links(g.dofmap, 0) |-> SubSeq(g.x[x_dofs[i] + 1], 1, g.dim)])

\* The coordinate_dofs of one cell.
cell_coordinates(m, c) == coordinate_rows(m.geometry, links(m.geometry.dofmap, c))

in_range(m, cell) == cell \in 0..(Len(m.cells) - 1)

\* What the reads through undefined behaviour of one call can produce: each
\* of them yields an indeterminate value and the call goes on, or the
\* process dies, at the read or inside the kernel that is handed what was
\* read. crash_at is the number of the first pass of a facet loop, among
\* those that read outside an array, in which the process dies.
NoUB == [crash_at |-> 1, in_kernel |-> FALSE]

\* The passes of the facet loops of assemble_scalar(M).
facet_passes(M) ==
  SumSeq(Tup([i \in 1..Len(M.exterior_facet) |-> Len(M.exterior_facet[i])]))
    + SumSeq(Tup([i \in 1..Len(M.interior_facet) |-> Len(M.interior_facet[i])]))

UBOutcomes(M) ==
  {[crash_at |-> k, in_kernel |-> b] : k \in 1..(facet_passes(M) + 1), b \in BOOLEAN}

\* A kernel invocation with data read outside an array.
tainted(e) ==
  /\ e.ev = "kernel"
  /\ Indeterminate \in Range(e.cells) \cup Range(e.local_facet) \cup Range(e.perm)
                         \cup Range(e.w)

\* The passes that log records which read outside an array and went on.
survived(log) == Cardinality({j \in 1..Len(log) : tainted(log[j])})

\* The pass that comes after those of log reads outside an array: the
\* process dies at the read.
crashes(ub, log) == ~ub.in_kernel /\ survived(log) + 1 = ub.crash_at

\* The pass that comes after those of log hands the kernel the event e: the
\* process dies inside the kernel.
dies_in_kernel(ub, log, e) == ub.in_kernel /\ tainted(e) /\ survived(log) + 1 = ub.crash_at

\* The choices left for an assemble_* function called after log.
remaining(ub, log) == [ub EXCEPT !.crash_at = @ - survived(log)]

\* std::find over c_to_f->links(cell) and the distance to what it found.
local_facet_of(m, c_to_f, cell, f) ==
  IF in_range(m, cell) THEN Find(links(c_to_f, cell), f) ELSE Indeterminate

\* The coordinate_dofs gathered through x_dofmap.links(cell).
gathered_coordinates(m, cell) ==
  IF in_range(m, cell) THEN cell_coordinates(m, cell)
  ELSE Tup([i \in 1..num_links(m.geometry.dofmap, 0) |->
              Tup([j \in 1..m.geometry.dim |-> Indeterminate])])

\* coeffs.row(cell).
coeffs_row(coeffs, cell) ==
  IF cell \in 0..(Len(coeffs) - 1) THEN coeffs[cell + 1]
  ELSE Tup([j \in 1..Len(coeffs[1]) |-> Indeterminate])

\* Entry k of the storage of coeffs, which is row-major: the entry of a row
\* of coeffs, or a read outside the array.
coeffs_entry(coeffs, k) ==
  IF k \in 0..(Len(coeffs) * Len(coeffs[1]) - 1)
  THEN coeffs[(k \div Len(coeffs[1])) + 1][(k % Len(coeffs[1])) + 1]
  ELSE Indeterminate

\* The first width entries from the start of coeffs.row(cell): what
\* coeffs.row(cell).segment(offsets[i], n) reads for all the coefficients.
coeffs_segments(coeffs, cell, width) ==
  IF cell = Indeterminate THEN Tup([j \in 1..width |-> Indeterminate])
  ELSE Tup([j \in 1..width |-> coeffs_entry(coeffs, cell * Len(coeffs[1]) + j - 1)])

\* cell_info[cell].
cell_info_of(m, T, cell) ==
  IF in_range(m, cell) THEN Deref(T.cell_permutations)[cell + 1] ELSE Indeterminate

\* The state of a running assemble_* loop: the accumulator handed to the
\* kernel, how the loop stands, and the log.
Running(S) == S.status = "ok"

\* A build phase: the topology it has reached and the calls it has made.
build_start(T) == [topology |-> T, log |-> <<>>]

\* One call of the build phase, which leaves the topology T1.
build_call(B, name, kind, T1) ==
  [topology |-> T1, log |-> Append(B.log, BuildEvent(name, kind, B.topology, T1))]

build_entities(B, kind, d) ==
  build_call(B, "create_entities", kind, topology_create_entities(B.topology, d))

build_connectivity(B, kind, d0, d1) ==
  build_call(B, "create_connectivity", kind, topology_create_connectivity(B.topology, d0, d1))

build_entity_permutations(B, kind) ==
  build_call(B, "create_entity_permutations", kind,
             topology_create_entity_permutations(B.topology))

\* The build phase of assemble_cells, lines 130-133.
cells_build(T) ==
  build_entity_permutations(build_entities(build_start(T), "cell", T.dim), "cell")

Fail(S, how) == [S EXCEPT !.status = how]

\* fn(&value, ...): the kernel is handed the accumulator of the loop and the
\* data gathered for the entity.
invoke_kernel(S, fn, kind, pos, entity, a) ==
  [S EXCEPT !.value = tabulate_tensor(fn, S.value, a),
            !.log = Append(S.log, KernelEvent(kind, pos, entity, a))]

\* The kernel call of a facet loop: the process may die inside a kernel that
\* is handed data read outside an array.
facet_kernel(S, ub, fn, kind, pos, entity, a) ==
  IF dies_in_kernel(ub, S.log, KernelEvent(kind, pos, entity, a))
  THEN Fail(invoke_kernel(S, fn, kind, pos, entity, a), "segfault")
  ELSE invoke_kernel(S, fn, kind, pos, entity, a)

\* The arguments of the kernel for cell c, lines 155-161.
cell_arguments(m, T, c, coeffs) ==
  [cells |-> <<c>>, local_facet |-> <<>>, perm |-> <<>>,
   cell_info |-> Deref(T.cell_permutations)[c + 1],
   coordinate_dofs |-> cell_coordinates(m, c),
   w |-> coeffs[c + 1]]

\* A pass that hands the kernel a fresh accumulator instead of the running
\* one.
cells_visit_fresh_accumulator(S, m, T, c, pos, fn, coeffs) ==
  invoke_kernel([S EXCEPT !.value = 0], fn, "cell", pos, c, cell_arguments(m, T, c, coeffs))

\* One pass of the loop of assemble_cells, lines 152-162.
cells_visit(S, m, T, c, pos, fn, coeffs) ==
  invoke_kernel(S, fn, "cell", pos, c, cell_arguments(m, T, c, coeffs))

\* A loop that visits a cell once when the list repeats it.
RECURSIVE cells_loop_dedup(_, _, _, _, _, _, _)
cells_loop_dedup(S, m, T, active_cells, pos, fn, coeffs) ==
  IF pos > Len(active_cells) \/ ~Running(S) THEN S
  ELSE cells_loop_dedup(
         IF \E q \in 1..(pos - 1) : active_cells[q] = active_cells[pos] THEN S
         ELSE cells_visit(S, m, T, active_cells[pos], pos, fn, coeffs),
         m, T, active_cells, pos + 1, fn, coeffs)

\* A loop that takes the list to be ascending and stops at the first entry
\* below its predecessor.
RECURSIVE cells_loop_ascending(_, _, _, _, _, _, _)
cells_loop_ascending(S, m, T, active_cells, pos, fn, coeffs) ==
  IF pos > Len(active_cells) \/ ~Running(S) THEN S
  ELSE IF pos > 1 /\ active_cells[pos] < active_cells[pos - 1] THEN S
  ELSE cells_loop_ascending(cells_visit(S, m, T, active_cells[pos], pos, fn, coeffs),
                            m, T, active_cells, pos + 1, fn, coeffs)

RECURSIVE cells_loop(_, _, _, _, _, _, _)
cells_loop(S, m, T, active_cells, pos, fn, coeffs) ==
  IF pos > Len(active_cells) \/ ~Running(S) THEN S
  ELSE cells_loop(cells_visit(S, m, T, active_cells[pos], pos, fn, coeffs),
                  m, T, active_cells, pos + 1, fn, coeffs)

\* The topology completed during the loop.
loop_result_completed(T, S) ==
  [topology |-> create_connectivity_all(T).topology, value |-> S.value, status |-> S.status,
   log |-> S.log]

\* What an assemble_* function hands back: the topology its build phase
\* left, and the value, status and log of its loop.
loop_result(T, S) == [topology |-> T, value |-> S.value, status |-> S.status, log |-> S.log]

\* T value(0) and the loop, lines 151-164, after the build phase b.
cells_run(b, m, active_cells, fn, coeffs) ==
  loop_result(b.topology,
              cells_loop([value |-> 0, status |-> "ok", log |-> b.log],
                         m, b.topology, active_cells, 1, fn, coeffs))

\* assemble_cells: the topology after the build phase, the value returned,
\* the status and the log.
assemble_cells(m, T, active_cells, fn, coeffs) ==
  cells_run(cells_build(T), m, active_cells, fn, coeffs)

\* A build phase that leaves the facet-to-cell connectivity to the caller.
facets_build_no_connectivity(T, kind) ==
  build_entity_permutations(build_entities(build_start(T), kind, T.dim - 1), kind)

\* The build phase of assemble_exterior_facets (lines 180-182) and of
\* assemble_interior_facets (lines 247-249).
facets_build(T, kind) ==
  build_entity_permutations(
    build_connectivity(build_entities(build_start(T), kind, T.dim - 1),
                       kind, T.dim - 1, T.dim),
    kind)

\* perms(local_facet, cell), read out of bounds when local_facet is no
\* facet of the cell or cell is no cell.
facet_perm(T, ub, local_facet, cell) ==
  IF /\ cell \in 0..(Len(Deref(T.facet_permutations)) - 1)
     /\ local_facet \in 0..(Len(Deref(T.facet_permutations)[cell + 1]) - 1)
  THEN Deref(T.facet_permutations)[cell + 1][local_facet + 1]
  ELSE Indeterminate

\* The arguments of the kernel for a facet of cell `cell`, lines 221-228.
exterior_arguments(m, T, ub, cell, local_facet, coeffs) ==
  [cells |-> <<cell>>, local_facet |-> <<local_facet>>,
   perm |-> <<facet_perm(T, ub, local_facet, cell)>>,
   cell_info |-> cell_info_of(m, T, cell),
   coordinate_dofs |-> gathered_coordinates(m, cell),
   w |-> coeffs_row(coeffs, cell)]

\* Lines 218-228: the assert on the position found among the num_facets
\* facets of the cell, and the kernel call.
exterior_found(S, m, T, nd, ub, facet, pos, fn, coeffs, cell, num_facets, local_facet) ==
  IF AssertFails(nd, local_facet # num_facets) THEN Fail(S, "abort")
  ELSE IF local_facet = num_facets /\ crashes(ub, S.log) THEN Fail(S, "segfault")
  ELSE facet_kernel(S, ub, fn, "exterior_facet", pos, facet,
                    exterior_arguments(m, T, ub, cell, local_facet, coeffs))

\* Lines 215-219: the local index of the facet with respect to the cell.
exterior_cell(S, m, T, nd, ub, facet, pos, fn, coeffs, cell, facets) ==
  exterior_found(S, m, T, nd, ub, facet, pos, fn, coeffs, cell,
                 IF in_range(m, cell) THEN Len(facets) ELSE Indeterminate,
                 IF in_range(m, cell) THEN Find(facets, facet) ELSE Indeterminate)

\* f_to_c->links(facet)[0]: what the read yields past the end of an empty
\* row is not defined.
attached_cell(row, ub) == IF Len(row) = 0 THEN Indeterminate ELSE row[1]

\* Lines 211-212: the assert on the incident cells `row` of the facet, and
\* the attached cell, row[0] (an out-of-bounds read when the row is empty).
exterior_attached(S, m, T, nd, ub, facet, pos, fn, coeffs, row, c_to_f) ==
  IF AssertFails(nd, Len(row) = 1) THEN Fail(S, "abort")
  ELSE IF Len(row) = 0 /\ crashes(ub, S.log) THEN Fail(S, "segfault")
  ELSE exterior_cell(S, m, T, nd, ub, facet, pos, fn, coeffs, attached_cell(row, ub),
                     IF in_range(m, attached_cell(row, ub))
                     THEN links(c_to_f, attached_cell(row, ub)) ELSE <<>>)

\* One pass of the loop of assemble_exterior_facets, lines 208-229.
exterior_visit(S, m, T, nd, ub, facet, pos, fn, coeffs) ==
  IF IsNull(connectivity(T, T.dim - 1, T.dim)) \/ IsNull(connectivity(T, T.dim, T.dim - 1))
  THEN Fail(S, "segfault")
  ELSE exterior_attached(S, m, T, nd, ub, facet, pos, fn, coeffs,
                         links(Deref(connectivity(T, T.dim - 1, T.dim)), facet),
                         Deref(connectivity(T, T.dim, T.dim - 1)))

RECURSIVE exterior_loop(_, _, _, _, _, _, _, _, _)
exterior_loop(S, m, T, nd, ub, active_facets, pos, fn, coeffs) ==
  IF pos > Len(active_facets) \/ ~Running(S) THEN S
  ELSE exterior_loop(exterior_visit(S, m, T, nd, ub, active_facets[pos], pos, fn, coeffs),
                     m, T, nd, ub, active_facets, pos + 1, fn, coeffs)

\* The asserts on f_to_c and c_to_f that precede the loops.
connectivity_asserts(T, nd) ==
  IF AssertFails(nd, ~IsNull(connectivity(T, T.dim - 1, T.dim))
                     /\ ~IsNull(connectivity(T, T.dim, T.dim - 1)))
  THEN "abort" ELSE "ok"

\* Lines 201-231, after the build phase b.
exterior_run(b, m, nd, ub, active_facets, fn, coeffs) ==
  loop_result(b.topology,
              exterior_loop([value |-> 0, status |-> connectivity_asserts(b.topology, nd),
                             log |-> b.log],
                            m, b.topology, nd, ub, active_facets, 1, fn, coeffs))

assemble_exterior_facets(m, T, nd, ub, active_facets, fn, coeffs) ==
  exterior_run(facets_build(T, "exterior_facet"), m, nd, ub, active_facets, fn, coeffs)

\* array.segment(start, Len(vals)) = vals, start 0-based.
write_segment(array, start, vals) ==
  Tup([j \in 1..Len(array) |->
     IF j - 1 >= start /\ j - 1 < start + Len(vals) THEN vals[j - start] ELSE array[j]])

\* Cell 1's slices gathered behind all of cell 0's, the layout
\* [restriction][coeff][dof].
pack_restriction_by_restriction(coeff_array, coeff_cell0, coeff_cell1, offsets, i) ==
  write_segment(
    write_segment(coeff_array, offsets[i],
                  SubSeq(coeff_cell0, offsets[i] + 1, offsets[i + 1])),
    offsets[Len(offsets)] + offsets[i],
    SubSeq(coeff_cell1, offsets[i] + 1, offsets[i + 1]))

\* The positions of segment(start, n), in the order they are assigned.
segment(start, n) == Tup([k \in 1..n |-> start + k - 1])

\* The positions the two segment assignments of coefficient i write,
\* lines 315-319.
restriction_writes(offsets, i) ==
  segment(2 * offsets[i], offsets[i + 1] - offsets[i])
    \o segment(offsets[i + 1] + offsets[i], offsets[i + 1] - offsets[i])

\* The positions written by the loop over the coefficients, lines 312-320.
RECURSIVE pack_writes(_, _)
pack_writes(offsets, i) ==
  IF i > Len(offsets) - 1 THEN <<>>
  ELSE restriction_writes(offsets, i) \o pack_writes(offsets, i + 1)

\* The two segment assignments of coefficient i, lines 315-319.
pack_restriction(coeff_array, coeff_cell0, coeff_cell1, offsets, i) ==
  write_segment(
    write_segment(coeff_array, 2 * offsets[i],
                  SubSeq(coeff_cell0, offsets[i] + 1, offsets[i + 1])),
    offsets[i + 1] + offsets[i],
    SubSeq(coeff_cell1, offsets[i] + 1, offsets[i + 1]))

\* The loop over the coefficients, lines 312-320.
RECURSIVE pack_restrictions(_, _, _, _, _)
pack_restrictions(coeff_array, coeff_cell0, coeff_cell1, offsets, i) ==
  IF i > Len(offsets) - 1 THEN coeff_array
  ELSE pack_restrictions(pack_restriction(coeff_array, coeff_cell0, coeff_cell1, offsets, i),
                         coeff_cell0, coeff_cell1, offsets, i + 1)

\* The kernel handed the bitmask of side 1.
interior_arguments_side1(m, T, ub, cells, local_facet, coeff_array) ==
  [cells |-> cells, local_facet |-> local_facet,
   perm |-> Tup([i \in 1..2 |-> facet_perm(T, ub, local_facet[i], cells[i])]),
   cell_info |-> cell_info_of(m, T, cells[2]),
   coordinate_dofs |-> gathered_coordinates(m, cells[1]) \o gathered_coordinates(m, cells[2]),
   w |-> coeff_array]

\* The arguments of the kernel for a facet between cells[0] and cells[1],
\* lines 294-323.
interior_arguments(m, T, ub, cells, local_facet, coeff_array) ==
  [cells |-> cells, local_facet |-> local_facet,
   perm |-> Tup([i \in 1..2 |-> facet_perm(T, ub, local_facet[i], cells[i])]),
   cell_info |-> cell_info_of(m, T, cells[1]),
   coordinate_dofs |-> gathered_coordinates(m, cells[1]) \o gathered_coordinates(m, cells[2]),
   w |-> coeff_array]

\* Lines 306-323: coeff_array, which lives across the passes of the loop, is
\* rewritten and handed to the kernel.
interior_invoke(S, m, T, ub, f, pos, fn, cells, local_facet, coeff_array) ==
  [facet_kernel(S, ub, fn, "interior_facet", pos, f,
                interior_arguments(m, T, ub, cells, local_facet, coeff_array))
     EXCEPT !.coeff_array = coeff_array]

\* The segments of lines 315-319 reach past the end of coeffs.
reads_past_coeffs(coeffs, cells, offsets) ==
  \E i \in 1..2 :
    Indeterminate \in Range(coeffs_segments(coeffs, cells[i], offsets_back(offsets)))

\* Lines 290-295: the asserts on the positions found (found is FALSE when
\* one of them is the end position).
interior_found(S, m, T, nd, ub, f, pos, fn, coeffs, offsets, cells, local_facet, found) ==
  IF AssertFails(nd, found) THEN Fail(S, "abort")
  ELSE IF (~found \/ reads_past_coeffs(coeffs, cells, offsets)) /\ crashes(ub, S.log)
  THEN Fail(S, "segfault")
  ELSE interior_invoke(S, m, T, ub, f, pos, fn, cells, local_facet,
                       pack_restrictions(S.coeff_array,
                                         coeffs_segments(coeffs, cells[1], offsets_back(offsets)),
                                         coeffs_segments(coeffs, cells[2], offsets_back(offsets)),
                                         offsets, 1))

\* Lines 284-292: the local index of the facet with respect to each of the
\* two cells.
interior_cells(S, m, T, nd, ub, f, pos, fn, coeffs, offsets, cells, c_to_f) ==
  interior_found(S, m, T, nd, ub, f, pos, fn, coeffs, offsets, cells,
                 Tup([i \in 1..2 |-> local_facet_of(m, c_to_f, cells[i], f)]),
                 \A i \in 1..2 : in_range(m, cells[i]) /\ f \in Range(links(c_to_f, cells[i])))

\* Lines 280-281: the assert on the incident cells `row` of the facet;
\* cells[0] and cells[1] are read from it, past its end when it is shorter.
interior_attached(S, m, T, nd, ub, f, pos, fn, coeffs, offsets, row, c_to_f) ==
  IF AssertFails(nd, Len(row) = 2) THEN Fail(S, "abort")
  ELSE IF Len(row) < 2 /\ crashes(ub, S.log) THEN Fail(S, "segfault")
  ELSE interior_cells(S, m, T, nd, ub, f, pos, fn, coeffs, offsets,
                      Tup([i \in 1..2 |-> IF i <= Len(row) THEN row[i] ELSE Indeterminate]),
                      c_to_f)

\* One pass of the loop of assemble_interior_facets, lines 277-324.
interior_visit(S, m, T, nd, ub, f, pos, fn, coeffs, offsets) ==
  IF IsNull(connectivity(T, T.dim - 1, T.dim)) \/ IsNull(connectivity(T, T.dim, T.dim - 1))
  THEN Fail(S, "segfault")
  ELSE interior_attached(S, m, T, nd, ub, f, pos, fn, coeffs, offsets,
                         links(Deref(connectivity(T, T.dim - 1, T.dim)), f),
                         Deref(connectivity(T, T.dim, T.dim - 1)))

RECURSIVE interior_loop(_, _, _, _, _, _, _, _, _, _)
interior_loop(S, m, T, nd, ub, active_facets, pos, fn, coeffs, offsets) ==
  IF pos > Len(active_facets) \/ ~Running(S) THEN S
  ELSE interior_loop(
         interior_visit(S, m, T, nd, ub, active_facets[pos], pos, fn, coeffs, offsets),
         m, T, nd, ub, active_facets, pos + 1, fn, coeffs, offsets)

\* assert(offsets.back() == coeffs.cols()), line 263, and then the asserts
\* on f_to_c and c_to_f, lines 271 and 273.
interior_asserts(T, nd, coeffs, offsets) ==
  IF AssertFails(nd, offsets_back(offsets) = Len(coeffs[1])) THEN "abort"
  ELSE connectivity_asserts(T, nd)

\* Eigen::Array<T, Eigen::Dynamic, 1> coeff_array(2 * offsets.back()), line
\* 262: memory that is not written.
new_coeff_array(offsets) == Tup([j \in 1..(2 * offsets_back(offsets)) |-> Uninitialized])

\* Lines 262-326, after the build phase b.
interior_run(b, m, nd, ub, active_facets, fn, coeffs, offsets) ==
  loop_result(b.topology,
              interior_loop([value |-> 0,
                             status |-> interior_asserts(b.topology, nd, coeffs, offsets),
                             log |-> b.log,
                             coeff_array |-> new_coeff_array(offsets)],
                            m, b.topology, nd, ub, active_facets, 1, fn, coeffs, offsets))

assemble_interior_facets(m, T, nd, ub, active_facets, fn, coeffs, offsets) ==
  interior_run(facets_build(T, "interior_facet"), m, nd, ub, active_facets, fn, coeffs,
               offsets)

PackEvent ==
  [ev |-> "pack_coefficients", kind |-> "", pos |-> 0, entity |-> -1, mutated |-> FALSE,
   cells |-> <<>>, local_facet |-> <<>>, perm |-> <<>>, cell_info |-> 0,
   coordinate_dofs |-> <<>>, w |-> <<>>]

\* integrals.integral_domains(type, i), i 0-based.
integral_domains(M, type, i) ==
  IF type = "cell" THEN M.cell[i + 1]
  ELSE IF type = "exterior_facet" THEN M.exterior_facet[i + 1]
  ELSE M.interior_facet[i + 1]

num_integrals(M, type) ==
  IF type = "cell" THEN Len(M.cell)
  ELSE IF type = "exterior_facet" THEN Len(M.exterior_facet)
  ELSE Len(M.interior_facet)

\* The assemble_* function of an integral type, on the active entities dom.
assemble_domain(m, T, nd, ub, fn, type, dom, coeffs, offsets) ==
  IF type = "cell" THEN assemble_cells(m, T, dom, fn, coeffs)
  ELSE IF type = "exterior_facet"
  THEN assemble_exterior_facets(m, T, nd, ub, dom, fn, coeffs)
  ELSE assemble_interior_facets(m, T, nd, ub, dom, fn, coeffs, offsets)

\* value += r, for what an assemble_* function handed back (nothing is
\* added when it did not return).
add_to_value(R, r) ==
  [topology |-> r.topology,
   value |-> IF r.status = "ok" THEN Sum(R.value, r.value) ELSE R.value,
   status |-> r.status,
   log |-> R.log \o r.log]

\* value += assemble_*(...) for integral i of one type, lines 91, 102, 114.
integral_step(R, m, nd, ub, M, type, i, coeffs) ==
  add_to_value(R, assemble_domain(m, R.topology, nd, remaining(ub, R.log), M.fn, type,
                                  integral_domains(M, type, i), coeffs, M.offsets))

\* A loop that goes on to the next integral when one did not return.
RECURSIVE integrals_loop_to_end(_, _, _, _, _, _, _, _)
integrals_loop_to_end(R, m, nd, ub, M, type, i, coeffs) ==
  IF i >= num_integrals(M, type) THEN R
  ELSE integrals_loop_to_end(integral_step(R, m, nd, ub, M, type, i, coeffs),
                             m, nd, ub, M, type, i + 1, coeffs)

\* The loop over the integrals of one type, lines 86-93, 95-104, 107-116.
RECURSIVE integrals_loop(_, _, _, _, _, _, _, _)
integrals_loop(R, m, nd, ub, M, type, i, coeffs) ==
  IF i >= num_integrals(M, type) \/ R.status # "ok" THEN R
  ELSE integrals_loop(integral_step(R, m, nd, ub, M, type, i, coeffs),
                      m, nd, ub, M, type, i + 1, coeffs)

\* The Form gets past the checks that precede the packing and the
\* integrals, lines 64-68: it has a Mesh and all its constants are set.
ReachesIntegrals(M) == ~IsNull(M.mesh) /\ all_constants_set(M)

\* The throw of line 68: no value, nothing logged, the topology untouched.
unset_constant(T) ==
  [status |-> "runtime_error", what |-> "UnsetConstant", value |-> Null,
   topology |-> T, log |-> <<>>]

\* A Form without a Mesh: assert(mesh), line 64, aborts; without the assert
\* the null pointer is dereferenced when the coefficients are packed, line
\* 82, and the process dies. Nothing is logged, the topology is untouched.
no_mesh(T, how) ==
  [status |-> how, what |-> "", value |-> Null, topology |-> T, log |-> <<>>]

\* How the call ends after the three loops: return value (line 118), or the
\* process ended by a failed assert or a crash.
call_outcome(R) ==
  [status |-> R.status,
   what |-> IF R.status = "abort" THEN "InconsistentTopology" ELSE "",
   value |-> IF R.status = "ok" THEN Ptr(R.value) ELSE Null,
   topology |-> R.topology, log |-> R.log]

\* T value(0) and the three loops over the integrals, lines 84-118.
assemble_packed(m, T, nd, ub, M, coeffs) ==
  call_outcome(
    integrals_loop(
      integrals_loop(
        integrals_loop([topology |-> T, value |-> 0, status |-> "ok", log |-> <<PackEvent>>],
                       m, nd, ub, M, "cell", 0, coeffs),
        m, nd, ub, M, "exterior_facet", 0, coeffs),
      m, nd, ub, M, "interior_facet", 0, coeffs))

\* Lines 69-118: the packing and the three loops over the integrals.
assemble_integrals(m, T, nd, ub, M) == assemble_packed(m, T, nd, ub, M, pack_coefficients(m, M))

\* The throw put after the assembly instead of before it.
throw_after(r) == [unset_constant(r.topology) EXCEPT !.log = r.log]

\* The check of the constants made after the assembly instead of before it.
assemble_scalar_late_check(m, T, nd, ub, M) ==
  IF AssertFails(nd, ~IsNull(M.mesh)) THEN no_mesh(T, "abort")
  ELSE IF IsNull(M.mesh) THEN no_mesh(T, "segfault")
  ELSE IF ~all_constants_set(M)
  THEN throw_after(assemble_integrals(m, T, nd, ub, M))
  ELSE assemble_integrals(m, T, nd, ub, M)

\* assemble_scalar(M): how the call ends, the value the caller receives (none
\* unless the call returns), the topology it leaves and the log.
assemble_scalar(m, T, nd, ub, M) ==
  IF AssertFails(nd, ~IsNull(M.mesh)) THEN no_mesh(T, "abort")
  ELSE IF ~all_constants_set(M) THEN unset_constant(T)
  ELSE IF IsNull(M.mesh) THEN no_mesh(T, "segfault")
  ELSE assemble_integrals(m, T, nd, ub, M)

-----------------------------------------------------------------------------
(* Inputs of the calls                                                     *)

NumCells(m) == Len(m.cells)

\* The number of facets of the mesh (entities of dimension tdim - 1).
NumFacets(m) ==
  IF m.tdim = 1 THEN m.num_vertices
  ELSE Len(Deref(compute_entities(create_topology(m), m.tdim - 1).entity_vertex))

SeqsOfLen(S, n) == {q \in SeqsUpTo(S, n) : Len(q) = n}

\* The integrals of one type: none (n = -1), or one whose active-entity
\* list has n entries.
IntegralsOf(S, n) == IF n < 0 THEN {<<>>} ELSE {<<q>> : q \in SeqsOfLen(S, n)}

\* The size of a Form: its integrals and their active entities.
Cost(n) == n + 1

\* Two integrals of one entity each, so that one integral kind is assembled
\* before another.
MixedSplits ==
  {t \in {-1, 1} \X {-1, 1} \X {-1, 1} : Cost(t[1]) + Cost(t[2]) + Cost(t[3]) = 4}

Splits ==
  {t \in (-1..MaxActive) \X (-1..MaxActive) \X (-1..MaxActive) :
     Cost(t[1]) + Cost(t[2]) + Cost(t[3]) <= MaxActive + 1} \cup MixedSplits

\* M.coefficients().offsets(): two coefficients, of one and two dofs per
\* cell, or one coefficient of two dofs.
FormOffsets == {<<0, 1, 3>>, <<0, 2>>}

\* One constant with a value, alone or followed by one without.
ConstantChoices == {<< <<5>> >>, << <<5>>, Null >>}

\* The Forms over mesh m: at most one integral of each type, active lists
\* of valid entity indices (repetitions allowed), constants set or not.
Forms(m) ==
  UNION {
    {[mesh |-> mp, cell |-> ci, exterior_facet |-> ei, interior_facet |-> ii,
      constants |-> cs, offsets |-> os, fn |-> fn] :
        mp \in {Null, Ptr(m)},
        ci \in IntegralsOf(0..(NumCells(m) - 1), t[1]),
        ei \in IntegralsOf(0..(NumFacets(m) - 1), t[2]),
        ii \in IntegralsOf(0..(NumFacets(m) - 1), t[3]),
        cs \in ConstantChoices, os \in FormOffsets, fn \in Kernels} : t \in Splits}

NoForm == [mesh |-> Null, cell |-> <<>>, exterior_facet |-> <<>>, interior_facet |-> <<>>,
           constants |-> <<>>, offsets |-> <<0>>,
           fn |-> [mode |-> "add", k |-> 0, uniform |-> TRUE]]

\* The outcomes of the call: the one outcome when it reads nothing through
\* undefined behaviour, and otherwise one for each thing such a read can
\* produce (r0 is the outcome in which the read crashes).
UBChoices(M, r0) == IF r0.status = "segfault" THEN UBOutcomes(M) ELSE {NoUB}

-----------------------------------------------------------------------------
(* The state machine: a caller that holds one Mesh and makes one call at a *)
(* time.                                                                   *)

\* Mesh objects and what their unique_ptr members own. A Mesh object is
\* constructed or not; its _topology and _geometry are Null (nullptr) or
\* point to a Topology and a Geometry object of the heap.
MeshNames == {"a", "b"}
Refs == 1..Cardinality(MeshNames)

NoMesh == [constructed |-> FALSE, _topology |-> Null, _geometry |-> Null]
MeshObject(t, g) == [constructed |-> TRUE, _topology |-> t, _geometry |-> g]

NoObjects ==
  [meshes |-> Fcn([x \in MeshNames |-> NoMesh]),
   topologies |-> Fcn([r \in Refs |-> Null]),
   geometries |-> Fcn([r \in Refs |-> Null])]

\* new: the first free cell of the heap.
allocate(heap) == CHOOSE r \in Refs : IsNull(heap[r]) /\ \A q \in 1..(r - 1) : ~IsNull(heap[q])

\* delete of the object a unique_ptr owns; nothing for nullptr.
release(heap, p) == IF IsNull(p) THEN heap ELSE [heap EXCEPT ![Deref(p)] = Null]

\* Topology(const Topology&) and Geometry(const Geometry&): the copy holds
\* the same values and is a separate object.
copy_of(object) == object

\* Mesh::Mesh(comm, topology, geometry), lines 98-103: x owning copies of T
\* and g.
construct(O, x, T, g) ==
  [meshes |-> [O.meshes EXCEPT ![x] = MeshObject(Ptr(allocate(O.topologies)),
                                                  Ptr(allocate(O.geometries)))],
   topologies |-> [O.topologies EXCEPT ![allocate(O.topologies)] = Ptr(copy_of(T))],
   geometries |-> [O.geometries EXCEPT ![allocate(O.geometries)] = Ptr(copy_of(g))]]

\* The Topology and the Geometry of Mesh x: *_topology, *_geometry.
topology_of(O, x) == Deref(O.topologies[Deref(O.meshes[x]._topology)])
geometry_of(O, x) == Deref(O.geometries[Deref(O.meshes[x]._geometry)])

\* Both meshes pointing at the same Topology and Geometry.
copy_construct_shared(O, dst, src) ==
  [O EXCEPT !.meshes[dst] = MeshObject(O.meshes[src]._topology, O.meshes[src]._geometry)]

\* Mesh::Mesh(const Mesh& mesh), lines 120-126.
copy_construct(O, dst, src) ==
  construct(O, dst, topology_of(O, src), geometry_of(O, src))

\* Mesh::Mesh(Mesh&& mesh), lines 128-135.
move_construct(O, dst, src) ==
  [O EXCEPT !.meshes[dst] = MeshObject(O.meshes[src]._topology, O.meshes[src]._geometry),
            !.meshes[src]._topology = Null,
            !.meshes[src]._geometry = Null]

\* u.release() for the _topology and for the _geometry of Mesh src: the
\* pointer is given up and src is left with nullptr.
released_topology(O, src) == [O EXCEPT !.meshes[src]._topology = Null]
released_geometry(O, src) == [O EXCEPT !.meshes[src]._geometry = Null]

\* reset(p) for the _topology and for the _geometry of Mesh dst: dst takes p
\* and what it pointed to before is deleted.
reset_topology(O, dst, p) ==
  [O EXCEPT !.meshes[dst]._topology = p,
            !.topologies = release(O.topologies, O.meshes[dst]._topology)]
reset_geometry(O, dst, p) ==
  [O EXCEPT !.meshes[dst]._geometry = p,
            !.geometries = release(O.geometries, O.meshes[dst]._geometry)]

\* Mesh::operator=(Mesh&& mesh), lines 142-151: the move assignment of a
\* unique_ptr is reset(u.release()), for _topology and then for _geometry.
\* When mesh is *this, the pointer given up is the one taken back and
\* nothing is deleted.
move_assign(O, dst, src) ==
  reset_geometry(
    released_geometry(
      reset_topology(released_topology(O, src), dst, O.meshes[src]._topology),
      src),
    dst, O.meshes[src]._geometry)

\* Mesh::~Mesh(), lines 137-140: the unique_ptr members delete what they own.
destroy(O, x) ==
  [meshes |-> [O.meshes EXCEPT ![x] = NoMesh],
   topologies |-> release(O.topologies, O.meshes[x]._topology),
   geometries |-> release(O.geometries, O.meshes[x]._geometry)]

\* *_topology of Mesh x replaced by T by a create_* call on x.
with_topology(O, x, T) == [O EXCEPT !.topologies[Deref(O.meshes[x]._topology)] = Ptr(T)]

\* FunctionSpace objects (FunctionSpace.cpp). A FunctionSpace lives in a
\* cell of the heap while some shared_ptr points to it; the cell of an
\* expired one is Null. _element and _dofmap are named by their place in
\* the element of the root space.

\* Most FunctionSpace objects made in one run.
MaxSpaces == 4

\* Longest component path from a root space.
MaxDepth == 2

SubIndices == {0, 1}
Components == SeqsUpTo(SubIndices, MaxDepth) \ {<<>>}

\* FunctionSpace::FunctionSpace(mesh, element, dofmap), lines 26-33.
FunctionSpace(id, m, element, dofmap) ==
  [_mesh |-> m, _element |-> element, _dofmap |-> dofmap, _id |-> id,
   _root_space_id |-> id, _component |-> <<>>, _subspaces |-> <<>>]

NoSpaces == [heap |-> Fcn([r \in 1..MaxSpaces |-> Null]), created |-> 0, held |-> {}]

\* The shared_ptr the caller got from this.sub(component); the handle of a
\* root space has this = 0.
Handle(s, this, component) == [space |-> s, this |-> this, component |-> component]

\* std::make_shared<FunctionSpace>(mesh, element, dofmap): a new object.
make_shared(S, m, element, dofmap) ==
  [S EXCEPT !.created = S.created + 1,
            !.heap[S.created + 1] = Ptr(FunctionSpace(S.created + 1, m, element, dofmap))]

\* The FunctionSpace object v.
space(S, v) == Deref(S.heap[v])

\* _subspaces.find(key): the weak_ptr stored under key, Null for end().
subspaces_find(map, key) == IF key \in DOMAIN map THEN Ptr(map[key]) ELSE Null

\* _subspaces.insert(pair(key, value)): a map keeps the element it already
\* has under key.
subspaces_insert(map, key, value) ==
  IF key \in DOMAIN map THEN map ELSE Fcn(map @@ (key :> value))

\* weak_ptr::lock(): the object while it lives, nullptr once it has expired.
lock(S, w) == IF IsNull(S.heap[w]) THEN Null ELSE Ptr(w)

\* Lines 70-74: the cached sub-space of component, when there is one and it
\* has not expired.
cache_lookup(S, this, component) ==
  IF IsNull(subspaces_find(space(S, this)._subspaces, component)) THEN Null
  ELSE lock(S, Deref(subspaces_find(space(S, this)._subspaces, component)))

\* A DofMap: the dofs of the part `of` of the root element, as a view into
\* the dofmap of the root or as a dofmap of its own.
DofMap(view, of) == [view |-> view, of |-> of]

\* FiniteElement::extract_sub_element and DofMap::extract_sub_dofmap: the
\* part of the element, and the view of the dofmap, at component.
extract_sub_element(element, component) == element \o component
extract_sub_dofmap(dofmap, component) == DofMap(TRUE, dofmap.of \o component)

\* DofMap::collapse: a dofmap of its own for the dofs of the view.
collapse_dofmap(dofmap) == DofMap(FALSE, dofmap.of)

\* Lines 76-91: the new sub-space, with the root id and the component from
\* the root.
new_sub_space(V, id, component) ==
  [FunctionSpace(id, V._mesh,
                 Ptr(extract_sub_element(Deref(V._element), component)),
                 Ptr(extract_sub_dofmap(Deref(V._dofmap), component)))
     EXCEPT !._root_space_id = V._root_space_id,
            !._component = V._component \o component]

\* Lines 76-95: the sub-space is made and inserted into the cache of this
\* under its component from the root.
create_sub_space(S, this, component) ==
  [S EXCEPT !.created = S.created + 1,
            !.heap[S.created + 1] =
               Ptr(new_sub_space(space(S, this), S.created + 1, component)),
            !.heap[this] =
               Ptr([space(S, this) EXCEPT !._subspaces =
                      subspaces_insert(space(S, this)._subspaces,
                                       space(S, this)._component \o component,
                                       S.created + 1)])]

SubOutcome(S, status, value) == [spaces |-> S, status |-> status, value |-> value]

\* assert(_mesh); assert(_element); assert(_dofmap), lines 65-67.
members_set(V) == ~IsNull(V._mesh) /\ ~IsNull(V._element) /\ ~IsNull(V._dofmap)

\* FunctionSpace::sub(component), lines 62-98. Without the asserts a null
\* _element or _dofmap is dereferenced at lines 78 and 82.
sub(S, this, component, nd) ==
  IF AssertFails(nd, members_set(space(S, this)))
  THEN SubOutcome(S, "abort", Null)
  ELSE IF ~IsNull(cache_lookup(S, this, component))
  THEN SubOutcome(S, "ok", cache_lookup(S, this, component))
  ELSE IF IsNull(space(S, this)._element) \/ IsNull(space(S, this)._dofmap)
  THEN SubOutcome(S, "crash", Null)
  ELSE SubOutcome(create_sub_space(S, this, component), "ok", Ptr(S.created + 1))

\* FunctionSpace::collapse(), lines 100-117. _dofmap and _mesh are
\* dereferenced at line 110 without an assert.
collapse(S, this) ==
  IF space(S, this)._component = <<>> THEN SubOutcome(S, "runtime_error", Null)
  ELSE IF IsNull(space(S, this)._dofmap) \/ IsNull(space(S, this)._mesh)
  THEN SubOutcome(S, "crash", Null)
  ELSE SubOutcome(make_shared(S, space(S, this)._mesh, space(S, this)._element,
                              Ptr(collapse_dofmap(Deref(space(S, this)._dofmap)))),
                  "ok", Ptr(S.created + 1))

\* The caller lets go of handle hd; the FunctionSpace is destroyed with the
\* last shared_ptr to it.
reset(S, hd) ==
  [S EXCEPT !.held = S.held \ {hd},
            !.heap[hd.space] = IF \E g \in S.held \ {hd} : g.space = hd.space
                              THEN S.heap[hd.space] ELSE Null]

NoCall ==
  [op |-> "none", d0 |-> 0, d1 |-> 0, form |-> NoForm, ub |-> NoUB, before |-> Null,
   status |-> "ok", what |-> "", ret |-> 0, value |-> Null, log |-> <<>>]

Init ==
  /\ mesh \in MeshInputs
  /\ ndebug \in BOOLEAN
  /\ topology = InitialTopology(mesh)
  /\ pc = "idle"
  /\ call = NoCall
  /\ objects = NoObjects
  /\ spaces = NoSpaces

\* A call that ends by returning or by throwing hands control back to the
\* caller; an abort or a crash ends the process.
After(status) == IF status \in {"ok", "runtime_error"} THEN "returned" ELSE "terminated"

\* create_entities(d) ends with outcome r.
EndCreateEntities(d, r) ==
  /\ topology' = r.topology
  /\ call' = [NoCall EXCEPT !.op = "create_entities", !.d0 = d, !.before = topology,
                            !.status = r.status, !.ret = r.ret]
  /\ pc' = After(r.status)

\* The create_* call op ends with outcome r.
EndCreate(op, d0, d1, r) ==
  /\ topology' = r.topology
  /\ call' = [NoCall EXCEPT !.op = op, !.d0 = d0, !.d1 = d1, !.before = topology,
                            !.status = r.status]
  /\ pc' = After(r.status)

CreateEntities ==
  /\ pc = "idle"
  /\ \E d \in Dims(topology) : EndCreateEntities(d, create_entities(topology, d))
  /\ UNCHANGED <<mesh, ndebug, objects, spaces>>

CreateConnectivity ==
  /\ pc = "idle"
  /\ \E d0 \in Dims(topology), d1 \in Dims(topology) :
       EndCreate("create_connectivity", d0, d1, create_connectivity(topology, d0, d1))
  /\ UNCHANGED <<mesh, ndebug, objects, spaces>>

CreateFacetCellConnectivity ==
  /\ pc = "idle"
  /\ EndCreate("create_connectivity", topology.dim - 1, topology.dim,
               create_connectivity(topology, topology.dim - 1, topology.dim))
  /\ UNCHANGED <<mesh, ndebug, objects, spaces>>

CreateEntityPermutations ==
  /\ pc = "idle"
  /\ EndCreate("create_entity_permutations", 0, 0, create_entity_permutations(topology))
  /\ UNCHANGED <<mesh, ndebug, objects, spaces>>

CreateConnectivityAll ==
  /\ pc = "idle"
  /\ EndCreate("create_connectivity_all", 0, 0, create_connectivity_all(topology))
  /\ UNCHANGED <<mesh, ndebug, objects, spaces>>

\* num_entities(d) ends with outcome r.
EndNumEntities(d, r) ==
  /\ call' = [NoCall EXCEPT !.op = "num_entities", !.d0 = d, !.before = topology,
                            !.status = r.status, !.what = r.what, !.d1 = r.dim,
                            !.value = r.ret]
  /\ pc' = After(r.status)

NumEntities ==
  /\ pc = "idle"
  /\ \E d \in Dims(topology) :
       EndNumEntities(d, num_entities(topology, d, ndebug))
  /\ UNCHANGED <<mesh, ndebug, topology, objects, spaces>>

\* assemble_scalar(M) ends with outcome r, under the choice ub.
EndAssembleScalar(M, ub, r) ==
  /\ topology' = r.topology
  /\ call' = [NoCall EXCEPT !.op = "assemble_scalar", !.form = M, !.ub = ub,
                            !.before = topology, !.status = r.status,
                            !.what = r.what, !.value = r.value, !.log = r.log]
  /\ pc' = After(r.status)

\* The outcome under the choice ub, r0 being the outcome under NoUB.
OutcomeUnder(M, ub, r0) ==
  IF ub = NoUB THEN r0 ELSE assemble_scalar(mesh, topology, ndebug, ub, M)

\* The outcomes of assemble_scalar(M), r0 being the one under NoUB.
AssembleForm(M, r0) ==
  \E ub \in UBChoices(M, r0) : EndAssembleScalar(M, ub, OutcomeUnder(M, ub, r0))

AssembleScalar ==
  /\ pc = "idle"
  /\ \E M \in Forms(mesh) :
       AssembleForm(M, assemble_scalar(mesh, topology, ndebug, NoUB, M))
  /\ UNCHANGED <<mesh, ndebug, objects, spaces>>

\* The caller takes the outcome of the call and is free to call again.
Return ==
  /\ pc = "returned"
  /\ pc' = "idle"
  /\ call' = NoCall
  /\ UNCHANGED <<mesh, ndebug, topology, objects, spaces>>

\* The topology engine alone: every create_* and query, in any order.
Next ==
  \/ CreateEntities
  \/ CreateConnectivity
  \/ CreateEntityPermutations
  \/ CreateConnectivityAll
  \/ NumEntities
  \/ Return

Spec == Init /\ [][Next]_vars

\* Assembly: the caller may pre-create what assembly needs, or not, and
\* assembles.
NextAssemble ==
  \/ CreateEntities
  \/ CreateFacetCellConnectivity
  \/ CreateEntityPermutations
  \/ AssembleScalar
  \/ Return

InitAssemble ==
  /\ mesh \in AssemblyMeshInputs
  /\ ndebug \in BOOLEAN
  /\ topology = InitialTopology(mesh)
  /\ pc = "idle"
  /\ call = NoCall
  /\ objects = NoObjects
  /\ spaces = NoSpaces

SpecAssemble == InitAssemble /\ [][NextAssemble]_vars

\* Packing alone: the offsets of a Form's coefficients and the rows of the
\* two cells of a facet; the buffer is packed, and packed again for the next
\* facet as the loop of lines 277-325 reuses it.
MaxCoefficients == 2
MaxOffset == 2

CoefficientValues == {1, 2}

\* Offsets arrays: 0 first, then the end of each coefficient's block.
OffsetsArrays ==
  {o \in SeqsUpTo(0..MaxOffset, MaxCoefficients + 1) :
     /\ Len(o) >= 1
     /\ o[1] = 0
     /\ \A i \in 1..(Len(o) - 1) : o[i] <= o[i + 1]}

CoefficientRows(offsets) == SeqsOfLen(CoefficientValues, offsets[Len(offsets)])

PackInput(offsets, coeff_cell0, coeff_cell1) ==
  [offsets |-> offsets, coeff_cell0 |-> coeff_cell0, coeff_cell1 |-> coeff_cell1]

InitPack ==
  /\ mesh = CHOOSE m \in AssemblyMeshInputs : m.tdim = 1
  /\ ndebug = FALSE
  /\ topology = InitialTopology(mesh)
  /\ pc = "idle"
  /\ \E offsets \in OffsetsArrays :
       \E coeff_cell0 \in CoefficientRows(offsets), coeff_cell1 \in CoefficientRows(offsets) :
         call = [NoCall EXCEPT !.form = PackInput(offsets, coeff_cell0, coeff_cell1)]
  /\ objects = NoObjects
  /\ spaces = NoSpaces

\* The packing of one facet into coeff_array, lines 306-320.
EndPack(coeff_array, P) ==
  /\ call' = [NoCall EXCEPT !.op = "pack_restrictions", !.form = P,
                            !.value = Ptr(pack_restrictions(coeff_array, P.coeff_cell0,
                                                            P.coeff_cell1, P.offsets, 1)),
                            !.log = pack_writes(P.offsets, 1)]
  /\ pc' = "returned"
  /\ UNCHANGED <<mesh, ndebug, topology, objects, spaces>>

\* The first facet of the loop: the buffer is as line 262 allocates it.
PackFirstFacet ==
  /\ pc = "idle"
  /\ EndPack(new_coeff_array(call.form.offsets),
             call.form)

\* A later facet of the loop: the buffer holds the previous facet's values.
PackNextFacet ==
  /\ pc = "returned"
  /\ \E coeff_cell0 \in CoefficientRows(call.form.offsets),
        coeff_cell1 \in CoefficientRows(call.form.offsets) :
       EndPack(Deref(call.value), PackInput(call.form.offsets, coeff_cell0, coeff_cell1))

NextPack ==
  \/ PackFirstFacet
  \/ PackNextFacet

SpecPack == InitPack /\ [][NextPack]_vars

\* Copies and moves: Mesh "a" is constructed; Mesh objects are copy- and
\* move-constructed, move-assigned and destroyed, and create_* is called on
\* any of them.
Constructed(O) == {x \in MeshNames : O.meshes[x].constructed}
Unconstructed(O) == {x \in MeshNames : ~O.meshes[x].constructed}

MeshArgs(this, other) == [this |-> this, other |-> other]

InitCopy ==
  /\ mesh \in AssemblyMeshInputs
  /\ ndebug \in BOOLEAN
  /\ topology = InitialTopology(mesh)
  /\ pc = "idle"
  /\ call = NoCall
  /\ objects = construct(NoObjects, "a", InitialTopology(mesh), mesh.geometry)
  /\ spaces = NoSpaces

\* A call of op on Mesh this ends with the objects O and the outcome status.
EndMeshCall(op, this, other, d0, d1, O, status) ==
  /\ objects' = O
  /\ call' = [NoCall EXCEPT !.op = op, !.form = MeshArgs(this, other), !.d0 = d0,
                            !.d1 = d1, !.status = status]
  /\ pc' = After(status)
  /\ UNCHANGED <<mesh, ndebug, topology, spaces>>

\* A call through a null _topology: assert(_topology) aborts where the
\* function has one and the build keeps it; the dereference crashes
\* otherwise.
null_topology(nd, asserted) == IF asserted /\ ~nd THEN "abort" ELSE "crash"

CopyConstruct ==
  /\ pc = "idle"
  /\ \E dst \in Unconstructed(objects), src \in Constructed(objects) :
       IF IsNull(objects.meshes[src]._topology)
       THEN EndMeshCall("copy_construct", dst, src, 0, 0, objects,
                        null_topology(ndebug, FALSE))
       ELSE EndMeshCall("copy_construct", dst, src, 0, 0,
                        copy_construct(objects, dst, src), "ok")

MoveConstruct ==
  /\ pc = "idle"
  /\ \E dst \in Unconstructed(objects), src \in Constructed(objects) :
       EndMeshCall("move_construct", dst, src, 0, 0, move_construct(objects, dst, src), "ok")

MoveAssign ==
  /\ pc = "idle"
  /\ \E dst \in Constructed(objects), src \in Constructed(objects) :
       EndMeshCall("move_assign", dst, src, 0, 0, move_assign(objects, dst, src), "ok")

Destroy ==
  /\ pc = "idle"
  /\ \E x \in Constructed(objects) :
       EndMeshCall("destroy", x, x, 0, 0, destroy(objects, x), "ok")

\* x.create_entities(d) with outcome r.
EndMeshCreateEntities(x, d, r) ==
  EndMeshCall("create_entities", x, x, d, 0, with_topology(objects, x, r.topology), r.status)

MeshCreateEntities ==
  /\ pc = "idle"
  /\ \E x \in Constructed(objects), d \in 0..mesh.tdim :
       IF IsNull(objects.meshes[x]._topology)
       THEN EndMeshCall("create_entities", x, x, d, 0, objects, null_topology(ndebug, TRUE))
       ELSE EndMeshCreateEntities(x, d, create_entities(topology_of(objects, x), d))

\* x.create_connectivity(tdim - 1, tdim).
\* The create_* call op on Mesh x ends with outcome r.
EndMeshCreate(op, x, d0, d1, r) ==
  EndMeshCall(op, x, x, d0, d1, with_topology(objects, x, r.topology), r.status)

MeshCreateConnectivity ==
  /\ pc = "idle"
  /\ \E x \in Constructed(objects) :
       IF IsNull(objects.meshes[x]._topology)
       THEN EndMeshCall("create_connectivity", x, x, mesh.tdim - 1, mesh.tdim, objects,
                        null_topology(ndebug, TRUE))
       ELSE EndMeshCreate("create_connectivity", x, mesh.tdim - 1, mesh.tdim,
                          create_connectivity(topology_of(objects, x),
                                              mesh.tdim - 1, mesh.tdim))

MeshCreateEntityPermutations ==
  /\ pc = "idle"
  /\ \E x \in Constructed(objects) :
       IF IsNull(objects.meshes[x]._topology)
       THEN EndMeshCall("create_entity_permutations", x, x, 0, 0, objects,
                        null_topology(ndebug, FALSE))
       ELSE EndMeshCreate("create_entity_permutations", x, 0, 0,
                          create_entity_permutations(topology_of(objects, x)))

NextCopy ==
  \/ CopyConstruct
  \/ MoveConstruct
  \/ MoveAssign
  \/ Destroy
  \/ MeshCreateEntities
  \/ MeshCreateConnectivity
  \/ MeshCreateEntityPermutations
  \/ Return

SpecCopy == InitCopy /\ [][NextCopy]_vars

-----------------------------------------------------------------------------
(* Mesh::hmin, hmax, rmin, rmax                                            *)

\* A length sqrt(n) / k, kept exact.
Root(n, k) == [sqrt |-> n, over |-> k]

squared_distance(p, q) == SumSeq([i \in 1..Len(p) |-> (p[i] - q[i]) * (p[i] - q[i])])

\* The largest squared distance between two of the points x[v + 1], v in
\* x_dofs.
max_squared_distance(x, x_dofs) ==
  CHOOSE n \in {squared_distance(x[x_dofs[i] + 1], x[x_dofs[j] + 1]) :
                  i \in 1..Len(x_dofs), j \in 1..Len(x_dofs)} :
    \A i \in 1..Len(x_dofs), j \in 1..Len(x_dofs) :
      squared_distance(x[x_dofs[i] + 1], x[x_dofs[j] + 1]) <= n

squared_diameter(g, c) == max_squared_distance(g.x, links(g.dofmap, c))

\* mesh::h(mesh, cells, dim): the greatest distance between two vertices of
\* each cell.
h(g, cells) == Tup([i \in 1..Len(cells) |-> Root(squared_diameter(g, cells[i]), 1)])

\* mesh::inradius(mesh, cells) for interval cells: half the length.
inradius(g, cells) == Tup([i \in 1..Len(cells) |-> Root(squared_diameter(g, cells[i]), 2)])

\* std::iota(cells.data(), cells.data() + cells.size(), 0).
iota(num_cells) == Tup([i \in 1..num_cells |-> i - 1])

ThrowEmptyMesh == [status |-> "runtime_error", what |-> "EmptyMesh", array |-> <<>>, log |-> <<>>]

\* The array of cell sizes computed without looking at the number of cells.
cell_h_unchecked(g, n) ==
  IF n.status # "ok"
  THEN [status |-> n.status, what |-> n.what, array |-> <<>>, log |-> <<>>]
  ELSE [status |-> "ok", what |-> "", array |-> h(g, iota(Deref(n.ret))), log |-> <<"h">>]

\* cell_h, lines 30-40, n being the outcome of mesh.num_entities(dim).
cell_h(g, n) ==
  IF n.status # "ok"
  THEN [status |-> n.status, what |-> n.what, array |-> <<>>, log |-> <<>>]
  ELSE IF Deref(n.ret) = 0
  THEN ThrowEmptyMesh
  ELSE [status |-> "ok", what |-> "", array |-> h(g, iota(Deref(n.ret))), log |-> <<"h">>]

\* cell_r, lines 42-52.
cell_r(g, n) ==
  IF n.status # "ok"
  THEN [status |-> n.status, what |-> n.what, array |-> <<>>, log |-> <<>>]
  ELSE IF Deref(n.ret) = 0
  THEN ThrowEmptyMesh
  ELSE [status |-> "ok", what |-> "", array |-> inradius(g, iota(Deref(n.ret))), log |-> <<"inradius">>]

smallest(array) == CHOOSE a \in Range(array) : \A b \in Range(array) : a.sqrt <= b.sqrt
largest(array) == CHOOSE a \in Range(array) : \A b \in Range(array) : a.sqrt >= b.sqrt

\* The outcome of a metric: r is the outcome of cell_h or cell_r, coeff the
\* coefficient minCoeff() or maxCoeff() picks. On an array of size 0 Eigen
\* asserts, or reads no coefficient at all.
reduced(nd, r, empty, coeff) ==
  IF r.status # "ok"
  THEN [status |-> r.status, what |-> r.what, value |-> Null, log |-> r.log]
  ELSE IF empty
  THEN [status |-> IF nd THEN "crash" ELSE "abort", what |-> "", value |-> Null, log |-> r.log]
  ELSE [status |-> "ok", what |-> "", value |-> Ptr(coeff), log |-> r.log]

minCoeff(nd, r) ==
  reduced(nd, r, Len(r.array) = 0, IF Len(r.array) = 0 THEN Null ELSE smallest(r.array))
maxCoeff(nd, r) ==
  reduced(nd, r, Len(r.array) = 0, IF Len(r.array) = 0 THEN Null ELSE largest(r.array))

\* Lines 296-302.
hmin(m, T, nd) == minCoeff(nd, cell_h(m.geometry, num_entities(T, T.dim, nd)))
hmax(m, T, nd) == maxCoeff(nd, cell_h(m.geometry, num_entities(T, T.dim, nd)))
rmin(m, T, nd) == minCoeff(nd, cell_r(m.geometry, num_entities(T, T.dim, nd)))
rmax(m, T, nd) == maxCoeff(nd, cell_r(m.geometry, num_entities(T, T.dim, nd)))

\* The metrics: interval meshes of zero, one and two cells, owned or ghost,
\* and triangle and tetrahedron meshes without cells.
NoCells == <<>>

IntervalMeshInputs ==
  {MeshInput(1, SubSeq(IntervalCells, 1, n), IF n = 0 THEN 0 ELSE n + 1, o, f) :
     n \in 0..Len(IntervalCells), o \in 0..Len(IntervalCells), f \in BOOLEAN}

MetricsMeshInputs ==
  {m \in IntervalMeshInputs : m.size_local <= Len(m.cells)}
  \cup {MeshInput(tdim, NoCells, 0, 0, f) : tdim \in 2..3, f \in BOOLEAN}
  \cup {blocked(MeshInput(1, SubSeq(IntervalCells, 1, n), IF n = 0 THEN 0 ELSE n + 1, n, f), 3) :
          n \in 0..1, f \in BOOLEAN}

InitMetrics ==
  /\ mesh \in MetricsMeshInputs
  /\ ndebug \in BOOLEAN
  /\ topology = InitialTopology(mesh)
  /\ pc = "idle"
  /\ call = NoCall
  /\ objects = NoObjects
  /\ spaces = NoSpaces

\* The metric op ends with outcome r.
EndMetric(op, r) ==
  /\ call' = [NoCall EXCEPT !.op = op, !.before = topology, !.status = r.status,
                            !.what = r.what, !.value = r.value, !.log = r.log]
  /\ pc' = After(r.status)
  /\ UNCHANGED <<mesh, ndebug, topology, objects, spaces>>

Hmin == pc = "idle" /\ EndMetric("hmin", hmin(mesh, topology, ndebug))
Hmax == pc = "idle" /\ EndMetric("hmax", hmax(mesh, topology, ndebug))
Rmin == pc = "idle" /\ EndMetric("rmin", rmin(mesh, topology, ndebug))
Rmax == pc = "idle" /\ EndMetric("rmax", rmax(mesh, topology, ndebug))

NextMetrics ==
  \/ Hmin
  \/ Hmax
  \/ Rmin
  \/ Rmax
  \/ CreateEntities
  \/ CreateConnectivity
  \/ Return

SpecMetrics == InitMetrics /\ [][NextMetrics]_vars

\* Interior-facet assembly: two triangles that share an edge, or two
\* intervals that share a vertex, and Forms with a Mesh, one interior-facet
\* integral and a kernel whose contribution depends on the data it is handed.
InteriorMeshInputs ==
  {MeshInput(1, IntervalCells, 3, 2, FALSE), MeshInput(2, TriangleCells, 4, 2, FALSE)}

InteriorForms(m) ==
  UNION {
    {[mesh |-> Ptr(m), cell |-> <<>>, exterior_facet |-> <<>>, interior_facet |-> ii,
      constants |-> cs, offsets |-> os, fn |-> fn] :
        ii \in IntegralsOf(0..(NumFacets(m) - 1), n),
        cs \in ConstantChoices, os \in FormOffsets,
        fn \in {k \in Kernels : ~k.uniform}} : n \in 0..MaxActive}

InitInterior ==
  /\ mesh \in InteriorMeshInputs
  /\ ndebug \in BOOLEAN
  /\ topology = InitialTopology(mesh)
  /\ pc = "idle"
  /\ call = NoCall
  /\ objects = NoObjects
  /\ spaces = NoSpaces

AssembleInteriorFacets ==
  /\ pc = "idle"
  /\ \E M \in InteriorForms(mesh) :
       AssembleForm(M, assemble_scalar(mesh, topology, ndebug, NoUB, M))
  /\ UNCHANGED <<mesh, ndebug, objects, spaces>>

\* The column counts of the coefficient arrays handed to
\* assemble_interior_facets by a direct caller: offsets.back(), or one less.
CoefficientColumns(offsets) == {offsets_back(offsets) - 1, offsets_back(offsets)}

\* assemble_interior_facets(mesh, active_facets, fn, coeffs, offsets, ...)
\* ends with outcome r, under the choice ub.
EndAssembleInteriorFacets(M, cols, ub, r) ==
  /\ topology' = r.topology
  /\ call' = [NoCall EXCEPT !.op = "assemble_interior_facets", !.form = M, !.ub = ub,
                            !.d0 = cols, !.before = topology, !.status = r.status,
                            !.value = IF r.status = "ok" THEN Ptr(r.value) ELSE Null,
                            !.log = r.log]
  /\ pc' = After(r.status)

interior_facets_call(M, cols, ub) ==
  assemble_interior_facets(mesh, topology, ndebug, ub, M.interior_facet[1], M.fn,
                           coefficient_array(mesh, cols), M.offsets)

\* The offsets of a direct caller: those of one coefficient of two dofs,
\* from the start of the row or behind one entry that no coefficient owns.
DirectOffsets == {<<0, 2>>, <<1, 3>>}

\* What a direct caller hands over, as a Form: the active facets, the
\* kernel and the offsets.
DirectCalls(m) ==
  UNION {
    {[mesh |-> Ptr(m), cell |-> <<>>, exterior_facet |-> <<>>, interior_facet |-> ii,
      constants |-> <<>>, offsets |-> os, fn |-> fn] :
        ii \in IntegralsOf(0..(NumFacets(m) - 1), n),
        os \in DirectOffsets,
        fn \in {k \in Kernels : ~k.uniform}} : n \in 0..MaxActive}

\* A caller of assemble_interior_facets itself, with a coefficient array of
\* its own making.
AssembleInteriorFacetsDirect ==
  /\ pc = "idle"
  /\ \E M \in DirectCalls(mesh) : \E cols \in CoefficientColumns(M.offsets) :
       \E ub \in UBChoices(M, interior_facets_call(M, cols, NoUB)) :
         EndAssembleInteriorFacets(M, cols, ub, interior_facets_call(M, cols, ub))
  /\ UNCHANGED <<mesh, ndebug, objects, spaces>>

NextInterior ==
  \/ CreateFacetCellConnectivity
  \/ CreateEntityPermutations
  \/ AssembleInteriorFacets
  \/ AssembleInteriorFacetsDirect
  \/ Return

SpecInterior == InitInterior /\ [][NextInterior]_vars

\* Sub-spaces: the caller holds a root FunctionSpace, takes sub-spaces of
\* the spaces it holds and lets go of them, in any order.
RootArguments ==
  {a \in [_mesh : {Null, Ptr("mesh")}, _element : {Null, Ptr(<<>>)},
          _dofmap : {Null, Ptr(DofMap(FALSE, <<>>))}] : TRUE}

root_space(a) ==
  [make_shared(NoSpaces, a._mesh, a._element, a._dofmap)
     EXCEPT !.held = {Handle(1, 0, <<>>)}]

InitSub ==
  /\ mesh = CHOOSE m \in AssemblyMeshInputs : m.tdim = 1
  /\ ndebug \in BOOLEAN
  /\ topology = InitialTopology(mesh)
  /\ pc = "idle"
  /\ call = NoCall
  /\ objects = NoObjects
  /\ \E a \in RootArguments : spaces = root_space(a)

SubArgs(this, component) == [this |-> this, component |-> component]

\* The spaces the caller holds a shared_ptr to.
Held(S) == {hd.space : hd \in S.held}

\* this.sub(component) ends with outcome r; the caller holds what it returns.
EndSub(this, component, r) ==
  /\ spaces' = [r.spaces EXCEPT !.held =
                   IF r.status = "ok"
                   THEN r.spaces.held \cup {Handle(Deref(r.value), this, component)}
                   ELSE r.spaces.held]
  /\ call' = [NoCall EXCEPT !.op = "sub", !.form = SubArgs(this, component),
                            !.status = r.status, !.value = r.value]
  /\ pc' = After(r.status)
  /\ UNCHANGED <<mesh, ndebug, topology, objects>>

\* The depth of the element of space v in the element of the root.
Depth(S, v) == IF IsNull(space(S, v)._element) THEN 0 ELSE Len(Deref(space(S, v)._element))

\* this.collapse() ends with outcome r; the caller holds the space it
\* returns, a root space.
EndCollapse(this, r) ==
  /\ spaces' = [r.spaces EXCEPT !.held =
                   IF r.status = "ok"
                   THEN r.spaces.held \cup {Handle(Deref(r.value), 0, <<>>)}
                   ELSE r.spaces.held]
  /\ call' = [NoCall EXCEPT !.op = "collapse", !.form = SubArgs(this, <<>>),
                            !.status = r.status, !.value = r.value]
  /\ pc' = After(r.status)
  /\ UNCHANGED <<mesh, ndebug, topology, objects>>

Collapse ==
  /\ pc = "idle"
  /\ \E this \in Held(spaces) :
       /\ spaces.created < MaxSpaces
       /\ EndCollapse(this, collapse(spaces, this))

Sub ==
  /\ pc = "idle"
  /\ \E this \in Held(spaces), component \in Components :
       /\ Depth(spaces, this) + Len(component) <= MaxDepth
       /\ spaces.created < MaxSpaces \/ ~IsNull(cache_lookup(spaces, this, component))
       /\ EndSub(this, component, sub(spaces, this, component, ndebug))

Reset ==
  /\ pc = "idle"
  /\ \E hd \in spaces.held :
       /\ spaces' = reset(spaces, hd)
       /\ call' = [NoCall EXCEPT !.op = "reset", !.form = SubArgs(hd.space, hd.component)]
       /\ pc' = "returned"
  /\ UNCHANGED <<mesh, ndebug, topology, objects>>

NextSub ==
  \/ Sub
  \/ Collapse
  \/ Reset
  \/ Return

SpecSub == InitSub /\ [][NextSub]_vars

-----------------------------------------------------------------------------
(* Properties                                                              *)

Returned(op) == pc = "returned" /\ call.op = op

\* The entities of dimension d of the mesh, counted from the cells alone.
EntityKeysOf(m, d) ==
  {EntityKey(m.tdim, d, m.cells[c], k) :
     c \in 1..Len(m.cells), k \in 1..Len(RefEntities(m.tdim, d))}

\* The outcome r of a call that did nothing: the sentinel -1 and the
\* topology as it is.
IsNoOp(r) == r.status = "ok" /\ r.ret = -1 /\ r.topology = topology

\* C1: create_entities(d) is idempotent.  When a call create_entities(d) has
\* returned, calling it again returns -1 and leaves the whole topology (every
\* connectivity, index map and permutation) as the first call left it.
C1_CreateEntitiesIdempotent ==
  (Returned("create_entities") /\ call.status = "ok") =>
    IsNoOp(create_entities(topology, call.d0))

\* A first call that computed the entities of its dimension.
C1_Witness ==
  /\ Returned("create_entities")
  /\ call.ret >= 0
  /\ topology # call.before
  /\ IsNull(connectivity(call.before, call.d0, 0))
  /\ ~IsNull(connectivity(topology, call.d0, 0))

\* C3: a connectivity that is cached is never evicted, replaced or stored
\* again: a pair is stored at most once, by no step once it is cached, and
\* every step leaves the adjacency of a cached pair as it is.
C3_Stable ==
  \A p \in Pairs(topology) :
    ~IsNull(topology.connectivity[p]) =>
      /\ topology'.connectivity[p] = topology.connectivity[p]
      /\ topology'.stores[p] = topology.stores[p]

C3_CachedNeverEvicted ==
  /\ [](\A p \in Pairs(topology) :
          topology.stores[p] = IF IsNull(topology.connectivity[p]) THEN 0 ELSE 1)
  /\ [][C3_Stable]_vars

\* create_connectivity(d0, d1) has returned from a topology that already
\* held (d0, d1), after another pair was computed with its transpose as a
\* byproduct.
C3_Witness ==
  /\ Returned("create_connectivity")
  /\ ~IsNull(connectivity(call.before, call.d0, call.d1))
  /\ call.d0 # call.d1
  /\ topology.dim = 3
  /\ ~IsNull(connectivity(topology, 1, 2))
  /\ ~IsNull(connectivity(topology, 2, 1))

\* A call of op has ended, by returning, throwing, aborting or crashing.
Ended(op) == pc \in {"returned", "terminated"} /\ call.op = op

\* The assert on the block size of the index map of dimension d fails.
BlockSizeAsserted(d) ==
  /\ ~ndebug
  /\ ~IsNull(index_map(topology, d))
  /\ Deref(index_map(topology, d)).block_size # 1

\* num_entities has returned the number of entities of dimension call.d0.
CountReturned ==
  /\ pc = "returned"
  /\ call.status = "ok"
  /\ call.value = Ptr(Deref(index_map(topology, call.d0)).size_local
                        + Deref(index_map(topology, call.d0)).num_ghosts)
  /\ Deref(call.value) = Cardinality(EntityKeysOf(mesh, call.d0))

\* num_entities has thrown NotInitialized, naming call.d0.
NotInitializedThrown ==
  /\ pc = "returned"
  /\ call.status = "runtime_error"
  /\ call.what = "NotInitialized"
  /\ call.d1 = call.d0
  /\ IsNull(call.value)

\* C4: num_entities(d) fails with the NotInitialized error naming d, and
\* returns no count, when the topology has no index map for d; when the
\* index map exists it returns size_local + num_ghosts, the number of
\* entities of dimension d, unless the build has assertions and the block
\* size of the index map is not 1: then the call aborts and returns no count.
C4_NumEntities ==
  Ended("num_entities") =>
    IF IsNull(index_map(topology, call.d0)) THEN NotInitializedThrown
    ELSE IF BlockSizeAsserted(call.d0)
    THEN pc = "terminated" /\ call.status = "abort" /\ IsNull(call.value)
    ELSE CountReturned

\* C4 as stated: whenever the index map exists the count is returned.
C4_AsStated ==
  Ended("num_entities") =>
    IF IsNull(index_map(topology, call.d0)) THEN NotInitializedThrown ELSE CountReturned

\* num_entities asked for a dimension whose entities were not created yet.
C4_Witness ==
  /\ Returned("num_entities")
  /\ call.status = "runtime_error"
  /\ call.d0 \in 1..(topology.dim - 1)
  /\ IsNull(index_map(topology, call.d0))

-----------------------------------------------------------------------------
(* Properties of assemble_scalar                                           *)

\* An assemble_scalar call has ended, by returning, throwing, aborting or
\* crashing.
Assembled == pc \in {"returned", "terminated"} /\ call.op = "assemble_scalar"

IntegralTypes == {"cell", "exterior_facet", "interior_facet"}

\* The kernel invocations of one integral type, in the order of the log.
KernelEvents(log, type) == SelectSeq(log, LAMBDA e : e.ev = "kernel" /\ e.kind = type)

\* The incident cells of facet f in the topology the call left.
IncidentCells(f) == links(Deref(connectivity(topology, topology.dim - 1, topology.dim)), f)

FacetsOf(c) == links(Deref(connectivity(topology, topology.dim, topology.dim - 1)), c)

\* What the caller of Mesh pre-creates for form M: for each integral type
\* of M, the calls the assembler of that type would make.
PreCreateForCells(T, M) ==
  IF Len(M.cell) > 0
  THEN create_entity_permutations(create_entities(T, T.dim).topology).topology
  ELSE T

PreCreateForFacets(T, M) ==
  IF Len(M.exterior_facet) + Len(M.interior_facet) > 0
  THEN create_entity_permutations(
         create_connectivity(create_entities(T, T.dim - 1).topology,
                             T.dim - 1, T.dim).topology).topology
  ELSE T

PreCreate(T, M) == PreCreateForFacets(PreCreateForCells(T, M), M)

\* The call ended as the outcome pre does.
SameOutcome(pre) ==
  /\ pre.status = call.status
  /\ pre.what = call.what
  /\ pre.value = call.value
  /\ ReachesIntegrals(call.form) => pre.topology = topology

\* C2: assembling with lazy build and assembling after the caller has
\* pre-created the entities, connectivity and permutations end the same way
\* with the same value, and, when the call gets past the checks of the Mesh
\* and of the constants, leave the same cached topology.
C2_LazyBuildEquivalent ==
  Assembled =>
    SameOutcome(assemble_scalar(mesh, PreCreate(call.before, call.form), ndebug,
                                call.ub, call.form))

\* A facet integral assembled on a triangle whose topology was as
\* constructed: the call built the facets, connectivity and permutations.
C2_Witness ==
  /\ Assembled
  /\ call.before = InitialTopology(mesh)
  /\ mesh.tdim = 2
  /\ IsNull(connectivity(call.before, 1, 2))
  /\ ~IsNull(connectivity(topology, 1, 2))
  /\ ~IsNull(topology.facet_permutations)
  /\ Len(call.form.exterior_facet) = 1
  /\ Len(call.form.exterior_facet[1]) > 0
  /\ call.status = "ok"
  /\ PreCreate(call.before, call.form) = topology

\* assemble_scalar has thrown UnsetConstant before anything else: no kernel
\* invocation, no packing, no create_* call is in the log, the topology is
\* untouched and no value is returned.
UnsetConstantThrown ==
  /\ pc = "returned"
  /\ call.status = "runtime_error"
  /\ call.what = "UnsetConstant"
  /\ call.log = <<>>
  /\ topology = call.before
  /\ IsNull(call.value)

\* C5 as stated: assemble_scalar on a Form with an unset constant throws
\* UnsetConstant before anything else.
C5_AsStated == (Assembled /\ ~all_constants_set(call.form)) => UnsetConstantThrown

\* C5 amended: assemble_scalar on a Form that has a Mesh and an unset
\* constant throws UnsetConstant before anything else, and so does, in a
\* build without assertions, a Form without a Mesh; in a build with
\* assertions a Form without a Mesh aborts at assert(mesh), before the
\* constants are looked at: no UnsetConstant error, and still no kernel
\* invocation, no packing, no create_* call and no value.
C5_UnsetConstantFirst ==
  (Assembled /\ ~all_constants_set(call.form)) =>
    IF ~ndebug /\ IsNull(call.form.mesh)
    THEN /\ pc = "terminated"
         /\ call.status = "abort"
         /\ call.log = <<>>
         /\ topology = call.before
         /\ IsNull(call.value)
    ELSE UnsetConstantThrown

\* A Form with an unset constant and an integral with active entities, on a
\* topology as constructed, has thrown.
C5_Witness ==
  /\ Assembled
  /\ ~all_constants_set(call.form)
  /\ ~IsNull(call.form.mesh)
  /\ call.status = "runtime_error"
  /\ call.before = InitialTopology(mesh)
  /\ \E type \in IntegralTypes :
       /\ num_integrals(call.form, type) = 1
       /\ Len(integral_domains(call.form, type, 0)) > 0

\* A Form with one cell integral and no other, whose kernel contributes the
\* same k for every cell.
SingleCellIntegral(M) ==
  /\ Len(M.cell) = 1
  /\ Len(M.exterior_facet) = 0
  /\ Len(M.interior_facet) = 0
  /\ M.fn.uniform

\* C6: a Form with a single cell integral whose kernel adds a constant k to
\* the accumulator it is handed, over C active cells, returns exactly k * C.
C6_AddingKernelSum ==
  (Assembled /\ call.status = "ok" /\ SingleCellIntegral(call.form)
     /\ call.form.fn.mode = "add") =>
    call.value = Ptr(call.form.fn.k * Len(call.form.cell[1]))

\* Two active cells and an adding kernel.
C6_Witness ==
  /\ Assembled
  /\ call.status = "ok"
  /\ SingleCellIntegral(call.form)
  /\ call.form.fn.mode = "add"
  /\ Len(call.form.cell[1]) = 2
  /\ call.value = Ptr(2 * call.form.fn.k)

\* C6 as stated: whatever way the kernel writes k into the accumulator
\* (adding k to it or storing k in it), the call returns k * C.
C6_AsStated ==
  (Assembled /\ call.status = "ok" /\ SingleCellIntegral(call.form)) =>
    call.value = Ptr(call.form.fn.k * Len(call.form.cell[1]))

\* C7: the i-th kernel invocation of each integral is for the i-th entry of
\* its active-entity list, and a call that returns has made as many
\* invocations as the list has entries.
C7_ListOrder ==
  Assembled =>
    \A type \in IntegralTypes :
      LET events == KernelEvents(call.log, type)
          list == IF num_integrals(call.form, type) = 0 THEN <<>>
                  ELSE integral_domains(call.form, type, 0)
      IN /\ Len(events) <= Len(list)
         /\ \A i \in 1..Len(events) : events[i].entity = list[i]
         /\ call.status = "ok" /\ all_constants_set(call.form) => Len(events) = Len(list)

\* A list that names the same entity twice was visited twice.
C7_Witness ==
  /\ Assembled
  /\ call.status = "ok"
  /\ \E type \in IntegralTypes :
       /\ num_integrals(call.form, type) = 1
       /\ LET list == integral_domains(call.form, type, 0)
          IN /\ Len(list) = 2
             /\ list[1] = list[2]
             /\ Len(KernelEvents(call.log, type)) = 2

\* The rearrangements of a sequence.
Rearrangements(s) ==
  {q \in SeqsOfLen(Range(s), Len(s)) :
     \A x \in Range(s) :
       Cardinality({i \in 1..Len(q) : q[i] = x}) = Cardinality({i \in 1..Len(s) : s[i] = x})}

IntegralPermutations(I) == IF Len(I) = 0 THEN {<<>>} ELSE {<<q>> : q \in Rearrangements(I[1])}

\* The Forms that differ from M in the order of the active-entity lists.
Reordered(M) ==
  {[M EXCEPT !.cell = ci, !.exterior_facet = ei, !.interior_facet = ii] :
     ci \in IntegralPermutations(M.cell),
     ei \in IntegralPermutations(M.exterior_facet),
     ii \in IntegralPermutations(M.interior_facet)}

\* The outcome r is a return of the value the call returned.
SameValue(r) == r.status = "ok" /\ r.value = call.value

\* C8: with a kernel that adds an integer contribution determined by the
\* visited entity, every rearrangement of the active-entity lists assembles
\* to the same sum.
C8_PermutationInvariant ==
  (Assembled /\ call.status = "ok" /\ call.ub = NoUB /\ call.form.fn.mode = "add") =>
    \A M \in Reordered(call.form) :
      SameValue(assemble_scalar(mesh, call.before, ndebug, NoUB, M))

\* Two cells listed in descending order, with contributions that differ.
C8_Witness ==
  /\ Assembled
  /\ call.status = "ok"
  /\ call.ub = NoUB
  /\ call.form.fn.mode = "add"
  /\ ~call.form.fn.uniform
  /\ call.form.cell = << <<1, 0>> >>
  /\ LET events == KernelEvents(call.log, "cell")
     IN /\ Len(events) = 2
        /\ Contribution(call.form.fn, events[1]) # Contribution(call.form.fn, events[2])

\* C9 as stated: an active exterior facet whose incident-cell list does not
\* have exactly one entry ends the call with the fatal InconsistentTopology
\* failure, and no kernel invocation is made for such a facet.
C9_AsStated ==
  (Assembled /\ ReachesIntegrals(call.form) /\ Len(call.form.exterior_facet) = 1) =>
    \A i \in 1..Len(call.form.exterior_facet[1]) :
      LET f == call.form.exterior_facet[1][i]
      IN Len(IncidentCells(f)) # 1 =>
           /\ call.status = "abort"
           /\ call.what = "InconsistentTopology"
           /\ \A j \in 1..Len(call.log) :
                ~(call.log[j].ev = "kernel" /\ call.log[j].kind = "exterior_facet"
                  /\ call.log[j].entity = f)

\* Without assertions, the kernel was invoked for a facet between two cells
\* and the call returned a value.
C9_Witness ==
  /\ Assembled
  /\ ndebug
  /\ call.status = "ok"
  /\ ~IsNull(call.value)
  /\ \E j \in 1..Len(call.log) :
       /\ call.log[j].ev = "kernel"
       /\ call.log[j].kind = "exterior_facet"
       /\ Len(IncidentCells(call.log[j].entity)) = 2

\* Facet f is missing from the facet list of one of its incident cells.
NotFound(f) == \E i \in 1..Len(IncidentCells(f)) : f \notin Range(FacetsOf(IncidentCells(f)[i]))

\* C10 as stated: an active interior facet whose incident-cell list does
\* not have exactly two entries, or which is not found in the facet list of
\* one of its incident cells, ends the call with the fatal
\* InconsistentTopology failure, and no kernel invocation is made for it.
C10_AsStated ==
  (Assembled /\ ReachesIntegrals(call.form) /\ Len(call.form.interior_facet) = 1
     /\ Len(call.form.exterior_facet) = 0) =>
    \A i \in 1..Len(call.form.interior_facet[1]) :
      LET f == call.form.interior_facet[1][i]
      IN (Len(IncidentCells(f)) # 2 \/ NotFound(f)) =>
           /\ call.status = "abort"
           /\ call.what = "InconsistentTopology"
           /\ \A j \in 1..Len(call.log) :
                ~(call.log[j].ev = "kernel" /\ call.log[j].kind = "interior_facet"
                  /\ call.log[j].entity = f)

\* Without assertions, the kernel was invoked for a boundary facet, with a
\* second cell that the facet-to-cell connectivity does not hold.
C10_Witness ==
  /\ Assembled
  /\ ndebug
  /\ \E j \in 1..Len(call.log) :
       /\ call.log[j].ev = "kernel"
       /\ call.log[j].kind = "interior_facet"
       /\ Len(IncidentCells(call.log[j].entity)) = 1
       /\ Len(call.log[j].cells) = 2

\* Restriction r (0 or 1) of coefficient i read back from the packed buffer.
restriction(coeff_array, offsets, i, r) ==
  SubSeq(coeff_array, 2 * offsets[i] + r * (offsets[i + 1] - offsets[i]) + 1,
         2 * offsets[i] + (r + 1) * (offsets[i + 1] - offsets[i]))

Packed == pc = "returned" /\ call.op = "pack_restrictions"

\* C11: the packed buffer has length 2*offsets.back(); for every coefficient
\* i, restriction 0 read back at 2*offsets[i] is cell 0's slice
\* offsets[i]:offsets[i+1] and restriction 1, immediately after it, is cell
\* 1's slice; every position of the buffer is written exactly once.
C11_PackRoundTrip ==
  Packed =>
    /\ Len(Deref(call.value)) = 2 * call.form.offsets[Len(call.form.offsets)]
    /\ \A i \in 1..(Len(call.form.offsets) - 1) :
         /\ restriction(Deref(call.value), call.form.offsets, i, 0)
              = SubSeq(call.form.coeff_cell0, call.form.offsets[i] + 1,
                       call.form.offsets[i + 1])
         /\ restriction(Deref(call.value), call.form.offsets, i, 1)
              = SubSeq(call.form.coeff_cell1, call.form.offsets[i] + 1,
                       call.form.offsets[i + 1])
    /\ \A j \in 0..(Len(Deref(call.value)) - 1) :
         Cardinality({k \in 1..Len(call.log) : call.log[k] = j}) = 1
    /\ \A j \in 1..Len(Deref(call.value)) : Deref(call.value)[j] \in CoefficientValues

\* Two coefficients, two cells with different rows.
C11_Witness ==
  /\ Packed
  /\ call.form.offsets = <<0, 1, 2>>
  /\ call.form.coeff_cell0 = <<1, 1>>
  /\ call.form.coeff_cell1 = <<2, 2>>
  /\ Deref(call.value) = <<1, 2, 1, 2>>

\* The facet flags present in T say, facet by facet, whether the facet has
\* two incident cells, and every facet has one or two.
FlagsClassify(T) ==
  /\ ~IsNull(connectivity(T, T.dim - 1, T.dim))
  /\ Len(Deref(T.interior_facets)) = num_nodes(Deref(connectivity(T, T.dim - 1, T.dim)))
  /\ \A f \in 0..(Len(Deref(T.interior_facets)) - 1) :
       /\ Deref(T.interior_facets)[f + 1]
            <=> num_links(Deref(connectivity(T, T.dim - 1, T.dim)), f) = 2
       /\ ~Deref(T.interior_facets)[f + 1]
            <=> num_links(Deref(connectivity(T, T.dim - 1, T.dim)), f) = 1

\* C12: create_connectivity(tdim-1, tdim) leaves the interior-facet flags
\* cached, and cached flags, after any sequence of create_* calls, are true
\* exactly for the facets with two incident cells in the (tdim-1, tdim)
\* connectivity and false exactly for those with one.
C12_InteriorFacetFlags ==
  /\ (Returned("create_connectivity") /\ call.d0 = topology.dim - 1
        /\ call.d1 = topology.dim) => ~IsNull(topology.interior_facets)
  /\ ~IsNull(topology.interior_facets) => FlagsClassify(topology)

\* Flags of a mesh with interior and boundary facets, computed by an earlier
\* call and still cached after a later create_entity_permutations.
C12_Witness ==
  /\ Returned("create_entity_permutations")
  /\ ~IsNull(call.before.interior_facets)
  /\ ~IsNull(topology.interior_facets)
  /\ TRUE \in Range(Deref(topology.interior_facets))
  /\ FALSE \in Range(Deref(topology.interior_facets))

\* The active entities of the integral of one type (a Form has at most one).
ActiveList(M, type) ==
  IF num_integrals(M, type) = 0 THEN <<>> ELSE integral_domains(M, type, 0)

Visit(type, entity) == [kind |-> type, entity |-> entity]

VisitsOf(M, type) ==
  Tup([i \in 1..Len(ActiveList(M, type)) |-> Visit(type, ActiveList(M, type)[i])])

\* The entities of Form M in the order assemble_scalar comes to them: the
\* cells, the exterior facets, the interior facets.
Visits(M) == VisitsOf(M, "cell") \o VisitsOf(M, "exterior_facet") \o VisitsOf(M, "interior_facet")

\* The entity is a facet whose number of incident cells is not the one its
\* integral type needs.
Inconsistent(v) ==
  \/ v.kind = "exterior_facet" /\ Len(IncidentCells(v.entity)) # 1
  \/ v.kind = "interior_facet" /\ Len(IncidentCells(v.entity)) # 2

\* The positions in Visits(M) of the facets that fail.
Failures(M) == {i \in 1..Len(Visits(M)) : Inconsistent(Visits(M)[i])}

\* The entities visited before the first facet that fails.
VisitsBeforeFailure(M) ==
  SubSeq(Visits(M), 1, (CHOOSE i \in Failures(M) : \A j \in Failures(M) : i <= j) - 1)

\* The entities the kernel was invoked for, in the order of the log.
Visited(log) ==
  Tup([j \in 1..Len(SelectSeq(log, LAMBDA e : e.ev = "kernel")) |->
         Visit(SelectSeq(log, LAMBDA e : e.ev = "kernel")[j].kind,
               SelectSeq(log, LAMBDA e : e.ev = "kernel")[j].entity)])

\* C13: an assemble_scalar call that fails hands the caller no value. A Form
\* with an unset constant fails with UnsetConstant; in a build with
\* assertions a Form that lists an inconsistent facet fails with the fatal
\* InconsistentTopology failure at the first such facet, after the kernel
\* has been invoked for every entity that precedes it (the earlier entities
\* of the integral and the earlier integral kinds), and what they had
\* accumulated reaches nobody.
C13_NoPartialResult ==
  Assembled =>
    /\ call.status # "ok" => IsNull(call.value)
    /\ (ReachesIntegrals(call.form) /\ ~ndebug /\ Failures(call.form) # {}) =>
         /\ pc = "terminated"
         /\ call.status = "abort"
         /\ call.what = "InconsistentTopology"
         /\ Visited(call.log) = VisitsBeforeFailure(call.form)
    /\ (~IsNull(call.form.mesh) /\ ~all_constants_set(call.form)) =>
         /\ call.status = "runtime_error"
         /\ call.what = "UnsetConstant"

\* The call failed on a facet after the kernel had accumulated the
\* contributions of the cells of an earlier integral.
C13_Witness ==
  /\ Assembled
  /\ call.status = "abort"
  /\ call.what = "InconsistentTopology"
  /\ IsNull(call.value)
  /\ Failures(call.form) # {}
  /\ \E j \in 1..Len(call.log) : call.log[j].ev = "kernel" /\ call.log[j].kind = "cell"

PresentPairs(T) == {p \in Pairs(T) : ~IsNull(T.connectivity[p])}
PresentDims(T) == {d \in Dims(T) : ~IsNull(index_map(T, d))}

\* What create_topology leaves: the vertices, the cells and the cell-vertex
\* connectivity.
BasePairs(m) == {<<0, 0>>, <<m.tdim, 0>>}
BaseDims(m) == {0, m.tdim}

\* What the factory adds when tdim > 1: the edges and the facets.
FactoryPairs(m) ==
  IF m.factory /\ m.tdim > 1
  THEN {<<m.tdim, 1>>, <<1, 0>>, <<m.tdim, m.tdim - 1>>, <<m.tdim - 1, 0>>}
  ELSE {}
FactoryDims(m) == IF m.factory /\ m.tdim > 1 THEN {1, m.tdim - 1} ELSE {}

CreateOps ==
  {"create_entities", "create_connectivity", "create_entity_permutations",
   "create_connectivity_all"}

\* A step that adds to the topology cache is a create_* call.
OnlyCreateCallsAdd ==
  (\/ PresentPairs(topology') # PresentPairs(topology)
   \/ PresentDims(topology') # PresentDims(topology)
   \/ topology'.cell_permutations # topology.cell_permutations
   \/ topology'.facet_permutations # topology.facet_permutations
   \/ topology'.interior_facets # topology.interior_facets)
    => call'.op \in CreateOps

\* C14, amended: a Mesh starts with the vertices, the cells and the
\* cell-vertex connectivity and, when the factory built it with tdim > 1,
\* also with the edges and the facets (their index maps and the (tdim, d)
\* and (d, 0) connectivity for d = 1 and d = tdim - 1); permutations and
\* facet flags are absent; anything else appears only in a create_* call.
C14_FactoryTopology ==
  /\ PresentPairs(topology) = BasePairs(mesh) \cup FactoryPairs(mesh)
  /\ PresentDims(topology) = BaseDims(mesh) \cup FactoryDims(mesh)
  /\ IsNull(topology.cell_permutations)
  /\ IsNull(topology.facet_permutations)
  /\ IsNull(topology.interior_facets)
  /\ [][OnlyCreateCallsAdd]_vars

\* C14 as stated: a Mesh built by the factory starts with nothing but the
\* vertices, the cells and the cell-vertex connectivity, and anything else
\* appears only in a create_* call.
C14_AsStated ==
  /\ mesh.factory =>
       /\ PresentPairs(topology) \subseteq BasePairs(mesh)
       /\ PresentDims(topology) \subseteq BaseDims(mesh)
  /\ [][OnlyCreateCallsAdd]_vars

\* A tetrahedron mesh as the factory leaves it: edges and facets present,
\* no call made.
C14_Witness ==
  /\ mesh.factory
  /\ mesh.tdim = 3
  /\ pc = "idle"
  /\ PresentPairs(topology) = {<<0, 0>>, <<3, 0>>, <<3, 1>>, <<1, 0>>, <<3, 2>>, <<2, 0>>}
  /\ PresentDims(topology) = {0, 1, 2, 3}
  /\ \A p \in PresentPairs(topology) : topology.stores[p] = 1

\* The Topology and Geometry objects Mesh x owns in O, Null where it owns
\* none.
OwnedTopology(O, x) ==
  IF IsNull(O.meshes[x]._topology) THEN Null ELSE O.topologies[Deref(O.meshes[x]._topology)]
OwnedGeometry(O, x) ==
  IF IsNull(O.meshes[x]._geometry) THEN Null ELSE O.geometries[Deref(O.meshes[x]._geometry)]

\* No Topology and no Geometry object is owned by two Mesh objects, and
\* what a Mesh points to exists.
OwnObjects ==
  /\ \A x \in MeshNames, y \in MeshNames :
       (x # y /\ ~IsNull(objects.meshes[x]._topology))
         => /\ objects.meshes[x]._topology # objects.meshes[y]._topology
            /\ objects.meshes[x]._geometry # objects.meshes[y]._geometry
  /\ \A x \in MeshNames :
       /\ IsNull(objects.meshes[x]._topology) <=> IsNull(objects.meshes[x]._geometry)
       /\ ~IsNull(objects.meshes[x]._topology) =>
            /\ ~IsNull(OwnedTopology(objects, x))
            /\ ~IsNull(OwnedGeometry(objects, x))

\* A copy construction: the copy owns a Topology and a Geometry equal to the
\* source's, and the source keeps its own.
CopyStep ==
  (call'.op = "copy_construct" /\ call'.status = "ok") =>
    /\ ~IsNull(objects'.meshes[call'.form.this]._topology)
    /\ OwnedTopology(objects', call'.form.this) = OwnedTopology(objects, call'.form.other)
    /\ OwnedGeometry(objects', call'.form.this) = OwnedGeometry(objects, call'.form.other)
    /\ objects'.meshes[call'.form.other] = objects.meshes[call'.form.other]
    /\ OwnedTopology(objects', call'.form.other) = OwnedTopology(objects, call'.form.other)
    /\ OwnedGeometry(objects', call'.form.other) = OwnedGeometry(objects, call'.form.other)

\* A create_* call on one Mesh leaves every other Mesh, its Topology and its
\* Geometry as they were.
CreateStep ==
  call'.op \in CreateOps =>
    \A y \in MeshNames \ {call'.form.this} :
      /\ objects'.meshes[y] = objects.meshes[y]
      /\ OwnedTopology(objects', y) = OwnedTopology(objects, y)
      /\ OwnedGeometry(objects', y) = OwnedGeometry(objects, y)

\* The destination points to the very objects the source pointed to,
\* unchanged, and the source points to none.
Transferred ==
  /\ objects'.meshes[call'.form.this]._topology = objects.meshes[call'.form.other]._topology
  /\ objects'.meshes[call'.form.this]._geometry = objects.meshes[call'.form.other]._geometry
  /\ OwnedTopology(objects', call'.form.this) = OwnedTopology(objects, call'.form.other)
  /\ OwnedGeometry(objects', call'.form.this) = OwnedGeometry(objects, call'.form.other)
  /\ IsNull(objects'.meshes[call'.form.other]._topology)
  /\ IsNull(objects'.meshes[call'.form.other]._geometry)

\* A move, as stated: whatever the source is.
MoveStepAsStated == call'.op \in {"move_construct", "move_assign"} => Transferred

\* A move from another Mesh transfers; a Mesh move-assigned to itself is
\* left as it was, owning what it owned.
MoveStep ==
  call'.op \in {"move_construct", "move_assign"} =>
    IF call'.form.this # call'.form.other THEN Transferred ELSE objects' = objects

\* C15 as stated: a copy-constructed Mesh owns its own Topology and
\* Geometry, so that a create_* call on either of the two leaves the other's
\* topology cache unchanged; move construction and move assignment hand the
\* source's Topology and Geometry to the destination and leave the source
\* with neither.
C15_AsStated ==
  /\ []OwnObjects
  /\ [][CopyStep /\ CreateStep /\ MoveStepAsStated]_vars

\* C15 amended: the same, for a move from another Mesh; the move assignment
\* of a Mesh to itself transfers nothing and leaves it owning its Topology
\* and Geometry.
C15_CopyOwnsMoveTransfers ==
  /\ []OwnObjects
  /\ [][CopyStep /\ CreateStep /\ MoveStep]_vars

\* Mesh b was copied from a; create_entity_permutations on b has computed
\* b's permutations, and a has none.
C15_Witness ==
  /\ Returned("create_entity_permutations")
  /\ call.form.this = "b"
  /\ ~IsNull(objects.meshes["a"]._topology)
  /\ ~IsNull(topology_of(objects, "b").cell_permutations)
  /\ IsNull(topology_of(objects, "a").cell_permutations)
  /\ topology_of(objects, "a").connectivity = topology.connectivity

Metrics == {"hmin", "hmax", "rmin", "rmax"}

\* The cell index map of the topology exists and counts no cell.
NoCellsCounted ==
  /\ ~IsNull(index_map(topology, topology.dim))
  /\ Deref(index_map(topology, topology.dim)).size_local
       + Deref(index_map(topology, topology.dim)).num_ghosts = 0

\* C16 as stated: hmin, hmax, rmin and rmax called on a mesh whose cell
\* index map counts zero cells throw the EmptyMesh error before any cell
\* size is computed, and give the caller no value.
C16_AsStated ==
  (pc # "idle" /\ call.op \in Metrics /\ NoCellsCounted) =>
    /\ pc = "returned"
    /\ call.status = "runtime_error"
    /\ call.what = "EmptyMesh"
    /\ IsNull(call.value)
    /\ call.log = <<>>

\* C16 amended: hmin, hmax, rmin and rmax called on a mesh whose cell index
\* map counts zero cells throw the EmptyMesh error before any cell size is
\* computed, and give the caller no value, when the block size of the cell
\* index map is 1 or the build has no assertions; with another block size a
\* build with assertions aborts in num_entities, before the test for zero
\* cells, and no value is given either.
C16_EmptyMesh ==
  (pc # "idle" /\ call.op \in Metrics /\ NoCellsCounted) =>
    /\ IsNull(call.value)
    /\ call.log = <<>>
    /\ IF BlockSizeAsserted(topology.dim)
       THEN pc = "terminated" /\ call.status = "abort"
       ELSE pc = "returned" /\ call.status = "runtime_error" /\ call.what = "EmptyMesh"

\* rmax has thrown on a triangle mesh without cells.
C16_Witness ==
  /\ Returned("rmax")
  /\ NoCellsCounted
  /\ mesh.tdim = 2
  /\ call.status = "runtime_error"
  /\ call.what = "EmptyMesh"

\* The coordinates of the nodes of cell c, one row of gdim components per
\* node.
RowsOf(c) ==
  [i \in 1..Len(mesh.geometry.dofmap[c + 1]) |->
     SubSeq(mesh.geometry.x[mesh.geometry.dofmap[c + 1][i] + 1], 1, mesh.geometry.dim)]

\* The position of facet f in the facet list of cell c.
LocalIndex(f, c) == CHOOSE k \in 0..(Len(FacetsOf(c)) - 1) : FacetsOf(c)[k + 1] = f

\* The arguments of kernel invocation e are those of a facet between the
\* cells IncidentCells(e.entity), side 0 first.
InteriorArguments(e) ==
  /\ e.cells = IncidentCells(e.entity)
  /\ Len(e.local_facet) = 2
  /\ Len(e.perm) = 2
  /\ \A i \in 1..2 :
       /\ e.local_facet[i] = LocalIndex(e.entity, e.cells[i])
       /\ e.perm[i] = Deref(topology.facet_permutations)[e.cells[i] + 1][e.local_facet[i] + 1]
  /\ e.coordinate_dofs = RowsOf(e.cells[1]) \o RowsOf(e.cells[2])
  /\ e.cell_info = Deref(topology.cell_permutations)[e.cells[1] + 1]

\* C17: interior-facet assembly invokes the kernel once per active facet,
\* in the order of the list; for a facet between two cells the kernel gets
\* the two local facet indices and the two permutation bytes in the order
\* of the facet's incident cells, the coordinate rows of side 0 followed by
\* those of side 1, and the cell permutation bitmask of side 0.
C17_InteriorKernelArguments ==
  (Assembled /\ Len(call.form.interior_facet) = 1) =>
    /\ Len(KernelEvents(call.log, "interior_facet")) <= Len(call.form.interior_facet[1])
    /\ call.status = "ok" =>
         Len(KernelEvents(call.log, "interior_facet")) = Len(call.form.interior_facet[1])
    /\ \A k \in 1..Len(KernelEvents(call.log, "interior_facet")) :
         /\ KernelEvents(call.log, "interior_facet")[k].entity = call.form.interior_facet[1][k]
         /\ Len(IncidentCells(call.form.interior_facet[1][k])) = 2
              => InteriorArguments(KernelEvents(call.log, "interior_facet")[k])

\* The kernel was invoked for the edge shared by two triangles whose
\* bitmasks differ, with the edge's different local indices in the two
\* cells and the bitmask of side 0.
C17_Witness ==
  /\ Assembled
  /\ call.status = "ok"
  /\ \E k \in 1..Len(call.log) :
       /\ call.log[k].ev = "kernel"
       /\ call.log[k].kind = "interior_facet"
       /\ Len(IncidentCells(call.log[k].entity)) = 2
       /\ call.log[k].local_facet[1] # call.log[k].local_facet[2]
       /\ Deref(topology.cell_permutations)[call.log[k].cells[1] + 1]
            # Deref(topology.cell_permutations)[call.log[k].cells[2] + 1]
       /\ call.log[k].cell_info = Deref(topology.cell_permutations)[call.log[k].cells[1] + 1]

\* The topology once create_entities(d0) and create_entities(d1) have run
\* on T.
Ensured(T, d0, d1) == create_entities(create_entities(T, d0).topology, d1).topology

\* T holds what E held and, of the pair R the computation returned, what is
\* not null: R[1] as (d0, d1), R[2] as (d1, d0); no other pair differs.
CachedAsReturned(T, E, R, d0, d1) ==
  /\ ~IsNull(R[1]) => connectivity(T, d0, d1) = R[1]
  /\ ~IsNull(R[2]) => connectivity(T, d1, d0) = R[2]
  /\ \A p \in Pairs(T) :
       (T.connectivity[p] # E.connectivity[p] \/ T.stores[p] # E.stores[p])
         => \/ p = <<d0, d1>> /\ ~IsNull(R[1])
            \/ p = <<d1, d0>> /\ ~IsNull(R[2])
  /\ T.index_map = E.index_map

CachedFrom(T, E, d0, d1) == CachedAsReturned(T, E, compute_connectivity(E, d0, d1), d0, d1)

\* C18: when create_connectivity(d0, d1) has returned, the entities of
\* dimension d0 and of dimension d1 exist, (d0, d1) is cached if the
\* computation returned it, (d1, d0) is cached if the computation returned
\* it as a byproduct, and no pair the computation did not return has been
\* stored.
C18_CachesWhatIsReturned ==
  Returned("create_connectivity") =>
    /\ \A d \in {call.d0, call.d1} :
         /\ ~IsNull(connectivity(topology, d, 0))
         /\ ~IsNull(index_map(topology, d))
    /\ CachedFrom(topology, Ensured(call.before, call.d0, call.d1), call.d0, call.d1)

\* create_connectivity(d0, d1) with d0 < d1 on a topology that had neither
\* the entities of dimension d0 nor (d1, d0): both pairs are cached.
C18_Witness ==
  /\ Returned("create_connectivity")
  /\ 0 < call.d0
  /\ call.d0 < call.d1
  /\ call.d1 < topology.dim
  /\ IsNull(connectivity(call.before, call.d0, 0))
  /\ IsNull(connectivity(call.before, call.d1, call.d0))
  /\ ~IsNull(connectivity(topology, call.d0, call.d1))
  /\ ~IsNull(connectivity(topology, call.d1, call.d0))
  /\ IsNull(connectivity(topology, call.d1, call.d1))

\* The entities of every dimension below tdim are present in T.
EntitiesBelowCells(T) ==
  \A d \in 0..(T.dim - 1) : ~IsNull(connectivity(T, d, 0)) /\ ~IsNull(index_map(T, d))

\* C19: when create_entity_permutations has returned, the entities of every
\* dimension d < tdim are present and the two permutation tables are the
\* ones computed from them; a call made with the tables already computed
\* leaves the topology exactly as it was.
C19_PermutationsIdempotent ==
  Returned("create_entity_permutations") =>
    /\ EntitiesBelowCells(topology)
    /\ ~IsNull(topology.cell_permutations)
    /\ ~IsNull(topology.facet_permutations)
    /\ Deref(topology.cell_permutations)
         = compute_entity_permutations(topology).cell_permutations
    /\ Deref(topology.facet_permutations)
         = compute_entity_permutations(topology).facet_permutations
    /\ (~IsNull(call.before.cell_permutations) /\ ~IsNull(call.before.facet_permutations))
         => topology = call.before

\* A second create_entity_permutations on a tetrahedron mesh: the tables
\* were computed, with edges and facets present, and nothing changed.
C19_Witness ==
  /\ Returned("create_entity_permutations")
  /\ topology.dim = 3
  /\ ~IsNull(call.before.cell_permutations)
  /\ ~IsNull(call.before.facet_permutations)
  /\ EntitiesBelowCells(call.before)
  /\ topology = call.before

\* Log entry e is a create_* call of a build phase.
IsBuild(e) == e.ev \in CreateOps

\* Entry i of the log is a kernel invocation and a later entry j is a
\* create_* call that changed the topology cache.
MutationAfterKernel(log, i, j) ==
  /\ i < j
  /\ log[i].ev = "kernel"
  /\ IsBuild(log[j])
  /\ log[j].mutated

\* C20, amended: within one assemble_scalar call, each integral's create_*
\* calls precede its own kernel invocations; a create_* call that changes
\* the topology cache after a kernel invocation belongs to the build phase
\* of a facet integral that follows a cell integral; the entity loops
\* change nothing, so a call that returns leaves the topology its build
\* phases produce.
C20_BuildPhasePerIntegral ==
  Assembled =>
    /\ \A i \in 1..Len(call.log), j \in 1..Len(call.log) :
         MutationAfterKernel(call.log, i, j) =>
           /\ call.log[i].kind = "cell"
           /\ call.log[j].kind \in {"exterior_facet", "interior_facet"}
    /\ \A i \in 1..Len(call.log), j \in 1..Len(call.log) :
         (i < j /\ call.log[i].ev = "kernel" /\ IsBuild(call.log[j])
            /\ call.log[j].kind = call.log[i].kind) => ~call.log[j].mutated
    /\ call.status = "ok" => topology = PreCreate(call.before, call.form)

\* C20 as stated: within one assemble_scalar call, no create_* call made
\* after the first kernel invocation changes the topology cache, across all
\* the integrals of the Form.
C20_AsStated ==
  Assembled =>
    \A i \in 1..Len(call.log), j \in 1..Len(call.log) :
      ~MutationAfterKernel(call.log, i, j)

\* The kernel of a cell integral ran, and then the build phase of the
\* exterior-facet integral of the same Form computed the facet-cell
\* connectivity.
C20_Witness ==
  /\ Assembled
  /\ call.status = "ok"
  /\ IsNull(connectivity(call.before, topology.dim - 1, topology.dim))
  /\ \E i \in 1..Len(call.log), j \in 1..Len(call.log) :
       /\ MutationAfterKernel(call.log, i, j)
       /\ call.log[i].kind = "cell"
       /\ call.log[j].ev = "create_connectivity"
       /\ call.log[j].kind = "exterior_facet"
-----------------------------------------------------------------------------
(* Properties of FunctionSpace::sub                                        *)

\* The handles the caller holds that two calls of sub with the same
\* component on the same space returned.
SamePath(hd, g) == hd.this = g.this /\ hd.component = g.component /\ hd.this # 0

\* C21, as stated: the cache of sub-spaces is looked up by component path
\* with a check that the cached sub-space is alive, so that for any
\* FunctionSpace, root or sub-space, and any component path, two calls
\* sub(component) made while the sub-space the first returned is alive
\* return the same object, also after an earlier cached sub-space of that
\* path has expired and been made again.
C21_AsStated ==
  \A hd, g \in spaces.held : SamePath(hd, g) => hd.space = g.space

\* sub(component) has returned while the caller holds the sub-space an
\* earlier call of sub(component) on the same space returned.
C21_Witness ==
  /\ pc = "returned"
  /\ call.op = "sub"
  /\ call.status = "ok"
  /\ \E hd, g \in spaces.held :
       /\ SamePath(hd, g)
       /\ hd.space # g.space
       /\ g.space = Deref(call.value)
       /\ hd.this = call.form.this
       /\ hd.component = call.form.component

====
